---------------------------- MODULE Spec2Model ----------------------------
(***************************************************************************)
(* A model of the speaker alignment and transcript rendering code of the   *)
(* transcribe_meeting package:                                             *)
(*   alignment.py     _find_speaker_for_word, align_speech_and_speakers    *)
(*   output_utils.py  save_to_txt, save_to_srt and their helpers           *)
(*                                                                         *)
(* Conventions.                                                            *)
(*  - Times are integer ticks.  The midpoint start + (end - start)/2 of a  *)
(*    word is a half-tick in general, so the model carries twice the       *)
(*    midpoint and compares it with twice a turn's start and end; on these *)
(*    small integers the float arithmetic of the code is exact.            *)
(*  - A Python str is a sequence of one-character strings.  Speaker labels  *)
(*    are kept as TLA+ strings and spelled out by StrOf where they are     *)
(*    formatted into a line.                                               *)
(*  - A Python list or tuple is a sequence.  A word dict is a record that  *)
(*    names the keys it has (keys) and the keys holding None (nulls).      *)
(***************************************************************************)
EXTENDS Integers, Sequences, FiniteSets, TLC

VARIABLES
    pc,                   \* control position of the operation being run
    segments,             \* align: the transcribed words, in segment order
    speaker_turns,        \* align: the caller's list object of speaker turns
    turns_passed,         \* align: the contents of that list when the call was made
    max_workers,          \* config.ALIGNMENT_MAX_WORKERS
    target_chunk_size,    \* config.ALIGNMENT_TARGET_WORDS_PER_CHUNK
    words_to_process,     \* align: the retained words
    speaker_turns_tuple,  \* align: the sorted turn table handed to the workers
    num_workers,          \* align: size of the worker pool
    chunksize,            \* align: chunksize of pool.map
    taken,                \* pool: number of chunks handed to a worker so far
    running,              \* pool: chunks a worker is processing
    chunk_results,        \* pool: result list of every finished chunk
    raised,               \* align: TRUE once an except clause caught a failure
    ret,                  \* align: the value returned to the caller
    word_info,            \* _find_speaker_for_word: the word dict it is given
    aligned_words,        \* save_to_txt, save_to_srt: the list of word dicts
    next_i,               \* save_to_*: 0-based index i of the next list element
    current_speaker_txt,  \* save_to_txt
    current_line_txt,     \* save_to_txt
    f_txt,                \* save_to_txt: the strings written to the file
    srt_options,          \* save_to_srt: the options dict
    srt_sequence,         \* save_to_srt
    phrase_start_time,    \* save_to_srt
    phrase_end_time,      \* save_to_srt
    phrase_text,          \* save_to_srt
    current_speaker_srt,  \* save_to_srt
    words_in_phrase,      \* save_to_srt
    last_word_end_time,   \* save_to_srt
    f_srt,                \* save_to_srt: the strings written to the file
    saved,                \* save_to_*: the value returned to the caller
    wrap_call,            \* _wrap_text_to_lines: the arguments text, max_line_length
    line_to_write,        \* _wrap_text_to_lines: the string it returned
    seconds_given,        \* format_srt_time: the argument seconds
    srt_time,             \* format_srt_time: the string it returned
    outcomes,             \* main, process_video: what each stage will yield
    calls,                \* main, process_video: the calls made so far, in order
    processing_successful, \* main
    main_returned,        \* main: the value returned, or how main was left
    job_status,           \* process_video: jobs[job_id]["status"]
    jobs,                 \* api.py: the jobs table, job id -> job record
    tasks,                \* api.py: the background task of each job created
    files,                \* the job ids whose transcript file exists
    response,             \* api.py: the last request answered, with its status code
    total_words           \* align_speech_and_speakers: len(words_to_process)

alignVars == <<segments, speaker_turns, turns_passed, max_workers, target_chunk_size,
               words_to_process, num_workers, chunksize, taken, running,
               chunk_results, raised, ret>>

txtVars == <<current_speaker_txt, current_line_txt, f_txt>>

srtVars == <<srt_options, srt_sequence, phrase_start_time, phrase_end_time, phrase_text,
             current_speaker_srt, words_in_phrase, last_word_end_time, f_srt>>

saveVars == <<aligned_words, next_i, saved, txtVars, srtVars>>

helperVars == <<wrap_call, line_to_write, seconds_given, srt_time>>

pipelineVars == <<outcomes, calls, processing_successful, main_returned, job_status>>

apiVars == <<jobs, tasks, files, response>>

vars == <<pc, segments, speaker_turns, turns_passed, max_workers, target_chunk_size,
          words_to_process, speaker_turns_tuple, num_workers, chunksize, taken,
          running, chunk_results, raised, ret, word_info, saveVars,
          helperVars, pipelineVars, apiVars, total_words>>

(***************************************************************************)
(* Bounds of the model.                                                    *)
(***************************************************************************)
MaxTime == 3        \* times of the per-word assignment are ticks 0..MaxTime
MaxTableLen == 3    \* turns in a table given to the per-word assignment
MaxWords == 5       \* words in the segments of one alignment call
MaxTurns == 2       \* turns in the caller's list of one alignment call
MaxTxtWords == 4    \* word dicts in the list given to save_to_txt
MaxSrtWords == 3    \* word dicts in the list given to save_to_srt
MaxTextLen == 6     \* characters of a text given to _wrap_text_to_lines
MaxLineLength == 4  \* the max_line_length given to _wrap_text_to_lines
MaxMillis == 2500   \* format_srt_time is given every time of 0..MaxMillis milliseconds
MaxJobs == 2        \* jobs created by POST /transcribe
MaxTotalWords == 20 \* words given to the sizing of the worker pool
MaxConfigValue == 6 \* ALIGNMENT_MAX_WORKERS and ALIGNMENT_TARGET_WORDS_PER_CHUNK

None == "None"
UNKNOWN == "UNKNOWN"
Speakers == {"SPEAKER_00", "SPEAKER_01"}

(***************************************************************************)
(* Generic helpers.                                                        *)
(***************************************************************************)
SeqsUpTo(S, n) == UNION {[1..k -> S] : k \in 0..n}

Max(a, b) == IF a >= b THEN a ELSE b

Min(a, b) == IF a <= b THEN a ELSE b

\* math.ceil(a / b) for a >= 0, b > 0
CeilDiv(a, b) == (a + b - 1) \div b

RECURSIVE Concat(_)
Concat(ss) == IF ss = <<>> THEN <<>> ELSE Head(ss) \o Concat(Tail(ss))

IsSpace(c) == c \in {" ", "\n"}

\* str.strip(): drop leading and trailing whitespace
RECURSIVE LStrip(_)
LStrip(s) == IF s # <<>> /\ IsSpace(Head(s)) THEN LStrip(Tail(s)) ELSE s

RECURSIVE RStrip(_)
RStrip(s) ==
    IF s # <<>> /\ IsSpace(s[Len(s)]) THEN RStrip(SubSeq(s, 1, Len(s) - 1)) ELSE s

Strip(s) == RStrip(LStrip(s))


(***************************************************************************)
(* alignment.py: the per-word assignment.                                  *)
(***************************************************************************)
Turns == {[start |-> s, end |-> e, speaker |-> k] :
            s \in 0..MaxTime, e \in 0..MaxTime, k \in Speakers}

\* a SpeakerTurn of the diarization producer has end > start
ValidTurns == {t \in Turns : t.start < t.end}

\* list.sort(key=lambda x: x['start']) leaves a list ascending by start
IsSortedByStart(ts) == \A i \in 1..(Len(ts) - 1) : ts[i].start <= ts[i + 1].start

\* what the word dict holds once word_info['speaker'] has been assigned
WithSpeaker(w, speaker) ==
    [start |-> w.start, end |-> w.end, text |-> w.text,
     word_index |-> w.word_index, speaker |-> speaker]

\* twice word_start + (word_end - word_start) / 2
word_midpoint2(w) == 2 * w.start + (w.end - w.start)

\* twice [turn['start'] for turn in speaker_turns_tuple]
turn_start_times2(ts) == [i \in 1..Len(ts) |-> 2 * ts[i].start]

\* bisect.bisect_left(a, x, lo, hi): the insertion point to the left of equals
RECURSIVE bisect_left(_, _, _, _)
bisect_left(a, x, lo, hi) ==
    IF lo < hi
    THEN LET mid == (lo + hi) \div 2
         IN  IF a[mid + 1] < x
             THEN bisect_left(a, x, mid + 1, hi)
             ELSE bisect_left(a, x, lo, mid)
    ELSE lo

\* bisect.bisect_right(a, x, lo, hi): the binary search of the standard library
RECURSIVE bisect_right(_, _, _, _)
bisect_right(a, x, lo, hi) ==
    IF lo < hi
    THEN LET mid == (lo + hi) \div 2
         IN  IF x < a[mid + 1]              \* a[mid] with 0-based indices
             THEN bisect_right(a, x, lo, mid)
             ELSE bisect_right(a, x, mid + 1, hi)
    ELSE lo

\* mutant of MidpointInTurn: the turn's end counted as part of the turn
MidpointInTurnClosed(m2, turn) == 2 * turn.start <= m2 /\ m2 <= 2 * turn.end

\* turn['start'] <= word_midpoint < turn['end']
MidpointInTurn(m2, turn) == 2 * turn.start <= m2 /\ m2 < 2 * turn.end

\* the speaker chosen by _find_speaker_for_word; indices are 0-based as in the code
FoundSpeaker(w, ts) ==
    LET m2 == word_midpoint2(w)
        potential_turn_index == bisect_right(turn_start_times2(ts), m2, 0, Len(ts)) - 1
        next_turn_index == potential_turn_index + 1
    IN  IF ts = <<>> THEN UNKNOWN
        ELSE IF potential_turn_index >= 0
                /\ MidpointInTurn(m2, ts[potential_turn_index + 1])
        THEN ts[potential_turn_index + 1].speaker
        ELSE IF next_turn_index < Len(ts)
                /\ MidpointInTurn(m2, ts[next_turn_index + 1])
        THEN ts[next_turn_index + 1].speaker
        ELSE UNKNOWN

_find_speaker_for_word(w, ts) == WithSpeaker(w, FoundSpeaker(w, ts))


(***************************************************************************)
(* alignment.py: align_speech_and_speakers.                                *)
(***************************************************************************)
\* the "Prepare word data" loop: words whose stripped text is empty are
\* skipped, the others are numbered in the order they are kept.  The nested
\* loop over segments and their words visits the words in one order, which
\* is the order of the sequence segs.
RECURSIVE PrepareWords(_, _)
PrepareWords(segs, acc) ==
    IF segs = <<>> THEN acc
    ELSE LET word == Head(segs)
             word_text == Strip(word.word)
         IN  IF word_text = <<>>
             THEN PrepareWords(Tail(segs), acc)
             ELSE PrepareWords(Tail(segs),
                               Append(acc, [start |-> word.start, end |-> word.end,
                                            text |-> word_text,
                                            word_index |-> Len(acc)]))

\* one step of the stable sort: t goes behind every turn that starts no later
RECURSIVE InsertByStart(_, _)
InsertByStart(sorted, t) ==
    IF sorted = <<>> THEN <<t>>
    ELSE IF t.start < Head(sorted).start THEN <<t>> \o sorted
    ELSE <<Head(sorted)>> \o InsertByStart(Tail(sorted), t)

\* list.sort(key=lambda x: x['start']): ascending by start, equal starts keep
\* the order they had in the list
RECURSIVE SortByStart(_, _)
SortByStart(list, sorted) ==
    IF list = <<>> THEN sorted
    ELSE SortByStart(Tail(list), InsertByStart(sorted, Head(list)))

\* speaker_turns.sort(...) acts on the list object the caller passed, unless
\* the name was rebound to a fresh [] because the list was empty
SortedInPlace(list) == SortByStart(list, <<>>)

chunk_factor == 4

\* num_workers as computed from the workload
NumWorkers(total, target, maxw) ==
    IF total > 0 /\ target > 0
    THEN LET num_chunks_ideal == CeilDiv(total, target)
         IN  Max(1, Min(maxw, num_chunks_ideal))
    ELSE 1

\* chunksize of pool.map, with the quotient rounded down
ChunkSizeRoundedDown(total, workers) ==
    IF total > 0
    THEN Max(1, total \div (workers * chunk_factor))
    ELSE 1

\* chunksize of pool.map
ChunkSize(total, workers) ==
    IF total > 0
    THEN Max(1, CeilDiv(total, workers * chunk_factor))
    ELSE 1

\* pool.map cuts its iterable into consecutive chunks of chunksize items
NumChunks(n, size) == CeilDiv(n, size)

Chunk(words, size, k) == SubSeq(words, (k - 1) * size + 1, Min(k * size, Len(words)))

\* a worker maps worker_func over the chunk it took
MapChunk(chunk, ts) == [i \in 1..Len(chunk) |-> _find_speaker_for_word(chunk[i], ts)]

\* what the function returns when no word is retained
NoWordsResult == <<>>

\* what the except clauses return
FailureResult == <<>>

(***************************************************************************)
(* output_utils.py: word dicts and save_to_txt.                            *)
(***************************************************************************)
WordKeys == {"start", "end", "text", "speaker"}

\* a word dict: the keys it has, those among them that hold None, and the
\* values of the others (the value of a key it lacks is never read)
WordDict(keys, nulls, start, end, text, speaker) ==
    [keys |-> keys, nulls |-> nulls, start |-> start, end |-> end,
     text |-> text, speaker |-> speaker]

\* the characters of a speaker label as an f-string prints it
StrOf(label) ==
    CASE label = "A" -> <<"A">>
      [] label = "B" -> <<"B">>
      [] label = UNKNOWN -> <<"U", "N", "K", "N", "O", "W", "N">>
      [] OTHER -> <<"N", "o", "n", "e">>

\* not word_info or not word_info.get("text")
TxtSkips(w) ==
    \/ w.keys = {}
    \/ "text" \notin w.keys
    \/ "text" \in w.nulls
    \/ w.text = <<>>

\* word_info.get("speaker", "UNKNOWN")
TxtSpeaker(w) ==
    IF "speaker" \notin w.keys THEN UNKNOWN
    ELSE IF "speaker" \in w.nulls THEN None
    ELSE w.speaker

\* mutant of TxtSpeakerChanged: an UNKNOWN word never starts a paragraph
TxtSpeakerChangedKnown(current, speaker) == current # speaker /\ speaker # UNKNOWN

\* current_speaker_txt != speaker
TxtSpeakerChanged(current, speaker) == current # speaker

\* f"[{current_speaker_txt}]: {current_line_txt.strip()}\n"
TxtParagraph(speaker, line) ==
    <<"[">> \o StrOf(speaker) \o <<"]", ":", " ">> \o Strip(line) \o <<"\n">>

(***************************************************************************)
(* output_utils.py: format_srt_time.                                       *)
(*                                                                         *)
(* The argument of format_srt_time is <<>> for None, <<t>> for the float   *)
(* nearest to t / 1000 seconds (t a whole number of milliseconds, t >= 0), *)
(* <<"float", x>> for the floats nan, inf and -inf, and <<"str", x>> for a *)
(* value that is no number.                                                *)
(*                                                                         *)
(* The floats are IEEE 754 doubles (53 significant bits, round to nearest, *)
(* ties to even), and the model computes on them exactly.  Let t > 0 and   *)
(* f = floor(log2(t / 1000)).  The double s nearest to t / 1000 is         *)
(* M / 2^k with k = 52 - f and M the integer nearest to t * 2^k / 1000.    *)
(* With R = (t * 2^k) mod 1000, s lies R / (1000 * 2^k) below t / 1000 if  *)
(* R < 500 and (1000 - R) / (1000 * 2^k) above it if R > 500 (R = 500      *)
(* cannot happen: t * 2^k would be 500 mod 1000 with k > 2).  int(s) is    *)
(* t div 1000 and s - int(s) is exact, so with m = t mod 1000 the product  *)
(* (s - int(s)) * 1000 is m - R / 2^k or m + (1000 - R) / 2^k before it is *)
(* rounded.  Above m it truncates to m.  Below m it truncates to m only if *)
(* the rounding of the product gives m, that is if R / 2^k is at most half *)
(* the spacing 2^(g - 52) of the doubles just below m, 2^g the largest     *)
(* power of two below m: if R <= 2^(g - f - 1).  Otherwise it is m - 1.    *)
(***************************************************************************)
Digit(n) == <<"0", "1", "2", "3", "4", "5", "6", "7", "8", "9">>[n + 1]

\* str(n) for n >= 0
RECURSIVE StrOfInt(_)
StrOfInt(n) == IF n < 10 THEN <<Digit(n)>> ELSE StrOfInt(n \div 10) \o <<Digit(n % 10)>>

\* f"{n:0w}": at least w digits, padded with zeros on the left
RECURSIVE ZeroPad(_, _)
ZeroPad(digits, w) == IF Len(digits) >= w THEN digits ELSE ZeroPad(<<"0">> \o digits, w)

RECURSIVE Pow2(_)
Pow2(n) == IF n = 0 THEN 1 ELSE 2 * Pow2(n - 1)

\* 2^n mod 1000
RECURSIVE Pow2Mod1000(_)
Pow2Mod1000(n) == IF n = 0 THEN 1 ELSE (2 * Pow2Mod1000(n - 1)) % 1000

\* floor(log2(t / 1000)) for t >= 1000, counted up from f
RECURSIVE ExponentFrom(_, _)
ExponentFrom(t, f) == IF 1000 * Pow2(f + 1) <= t THEN ExponentFrom(t, f + 1) ELSE f

\* floor(log2(t / 1000)) for 0 < t < 1000, counted down from -j
RECURSIVE ExponentBelow(_, _)
ExponentBelow(t, j) == IF t * Pow2(j) >= 1000 THEN 0 - j ELSE ExponentBelow(t, j + 1)

\* the binary exponent of the float t / 1000, t > 0
FloatExponent(t) == IF t >= 1000 THEN ExponentFrom(t, 0) ELSE ExponentBelow(t, 1)

\* the g with 2^g < m <= 2^(g + 1), counted up from g; m >= 1
RECURSIVE ExponentUnder(_, _)
ExponentUnder(m, g) == IF Pow2(g + 1) < m THEN ExponentUnder(m, g + 1) ELSE g

\* (t * 2^k) mod 1000 for the k = 52 - f of the float t / 1000
RoundingRemainder(t) == ((t % 1000) * Pow2Mod1000(52 - FloatExponent(t))) % 1000

\* int(seconds) for seconds the float t / 1000
WholeSeconds(t) == t \div 1000

\* int((seconds - int(seconds)) * 1000) for seconds the float t / 1000
FractionMillis(t) ==
    LET m == t % 1000
        R == RoundingRemainder(t)
        e == ExponentUnder(m, 0 - 1) - FloatExponent(t) - 1
    IN  IF m = 0 \/ R = 0 \/ R > 500 THEN m
        ELSE IF e >= 0 /\ (e >= 9 \/ R <= Pow2(e)) THEN m
        ELSE m - 1

\* the tests of line 8
IsNoneValue(seconds) == Len(seconds) = 0

IsIntOrFloat(seconds) == Len(seconds) = 1 \/ (Len(seconds) = 2 /\ seconds[1] = "float")

IsNaN(seconds) == Len(seconds) = 2 /\ seconds[1] = "float" /\ seconds[2] = "nan"

\* mutant of IsInf: only the positive infinity is recognised
IsInfPositive(seconds) == Len(seconds) = 2 /\ seconds[1] = "float" /\ seconds[2] = "inf"

IsInf(seconds) == Len(seconds) = 2 /\ seconds[1] = "float" /\ seconds[2] \in {"inf", "-inf"}

\* what the caller sees when lines 10-13 raise: int() of nan or of an infinity,
\* or arithmetic on a value that is no number
Raises == <<"raises">>

format_srt_time(seconds) ==
    IF IsNoneValue(seconds) \/ ~IsIntOrFloat(seconds) \/ IsNaN(seconds) \/ IsInf(seconds)
    THEN <<"0", "0", ":", "0", "0", ":", "0", "0", ",", "0", "0", "0">>
    ELSE IF Len(seconds) # 1 THEN Raises
    ELSE LET t == seconds[1]
             millisec == Max(0, FractionMillis(t))
             sec == Max(0, WholeSeconds(t) % 60)
             mins == Max(0, (WholeSeconds(t) \div 60) % 60)
             hrs == Max(0, WholeSeconds(t) \div 3600)
         IN  ZeroPad(StrOfInt(hrs), 2) \o <<":">> \o ZeroPad(StrOfInt(mins), 2)
             \o <<":">> \o ZeroPad(StrOfInt(sec), 2) \o <<",">>
             \o ZeroPad(StrOfInt(millisec), 3)

(***************************************************************************)
(* output_utils.py: _wrap_text_to_lines and the pieces of save_to_srt.  In *)
(* the subtitle model a tick is half a second; a time variable that may    *)
(* hold None is <<>> for None and <<t>> for t ticks.                       *)
(***************************************************************************)
\* the value format_srt_time is given for a time variable of save_to_srt
SecondsOfTicks(time) == IF time = <<>> THEN <<>> ELSE <<500 * time[1]>>

\* str.split(): the maximal runs of characters that are not whitespace
RECURSIVE SplitFrom(_, _, _)
SplitFrom(s, word, acc) ==
    IF s = <<>> THEN (IF word = <<>> THEN acc ELSE Append(acc, word))
    ELSE IF IsSpace(Head(s))
    THEN SplitFrom(Tail(s), <<>>, IF word = <<>> THEN acc ELSE Append(acc, word))
    ELSE SplitFrom(Tail(s), Append(word, Head(s)), acc)

Split(s) == SplitFrom(s, <<>>, <<>>)

\* "\n".join(lines)
RECURSIVE JoinLines(_)
JoinLines(lines) ==
    IF lines = <<>> THEN <<>>
    ELSE IF Len(lines) = 1 THEN lines[1]
    ELSE lines[1] \o <<"\n">> \o JoinLines(Tail(lines))

\* mutant of FitsOnLine: a word that fills the line exactly is moved down
FitsOnLineStrict(current_line, word, max_line_length) ==
    Len(current_line) + Len(word) + 1 < max_line_length

\* the test of line 61
FitsOnLine(current_line, word, max_line_length) ==
    Len(current_line) + Len(word) + 1 <= max_line_length

\* the loop of _wrap_text_to_lines followed by the flush of the last line
RECURSIVE WrapWords(_, _, _, _)
WrapWords(words, current_line, wrapped_lines, max_line_length) ==
    IF words = <<>>
    THEN (IF current_line # <<>> THEN Append(wrapped_lines, current_line)
          ELSE wrapped_lines)
    ELSE LET word == Head(words)
         IN  IF current_line = <<>>
             THEN WrapWords(Tail(words), word, wrapped_lines, max_line_length)
             ELSE IF FitsOnLine(current_line, word, max_line_length)
             THEN WrapWords(Tail(words), current_line \o <<" ">> \o word,
                            wrapped_lines, max_line_length)
             ELSE WrapWords(Tail(words), word, Append(wrapped_lines, current_line),
                            max_line_length)

_wrap_text_to_lines(text, max_line_length) ==
    IF max_line_length = 0 \/ Len(text) <= max_line_length THEN text
    ELSE JoinLines(WrapWords(Split(text), <<>>, <<>>, max_line_length))

\* mutant of SrtSkips: a word with start > end is let through
SrtSkipsUnordered(w) ==
    \/ w.keys = {}
    \/ ~(WordKeys \subseteq w.keys)
    \/ "start" \in w.nulls
    \/ "end" \in w.nulls

\* the filter of lines 90-91 and 96: the word is skipped
SrtSkips(w) ==
    \/ w.keys = {}
    \/ ~(WordKeys \subseteq w.keys)
    \/ "start" \in w.nulls
    \/ "end" \in w.nulls
    \/ w.start > w.end

\* is_new_speaker, with the change of speaker never seen
SpeakerNeverNew(current, speaker) == FALSE

\* is_new_speaker
IsNewSpeaker(current, speaker) == current # speaker

\* mutant of IsLongGap: a gap equal to the threshold counts as long
IsLongGapOrEqual(index, word_start_time, last_end, gap_threshold) ==
    index > 0 /\ word_start_time - last_end >= gap_threshold

\* is_long_gap; index is the position i of the word in the list
IsLongGap(index, word_start_time, last_end, gap_threshold) ==
    index > 0 /\ word_start_time - last_end > gap_threshold

\* mutant of IsPhraseTooLong: the cap is passed by one word before it counts
IsPhraseTooLongLate(count, max_words_per_entry) ==
    max_words_per_entry # <<>> /\ count > max_words_per_entry[1]

\* is_phrase_too_long; a cap of None is <<>>
IsPhraseTooLong(count, max_words_per_entry) ==
    max_words_per_entry # <<>> /\ count >= max_words_per_entry[1]

\* the strings of a flush whose time range gives the phrase's start twice
EntryWritesStartTwice(sequence, start_time, end_time, speaker, text, max_line_length) ==
    << StrOfInt(sequence) \o <<"\n">>,
       format_srt_time(SecondsOfTicks(start_time)) \o <<" ", "-", "-", ">", " ">>
          \o format_srt_time(SecondsOfTicks(start_time)) \o <<"\n">>,
       _wrap_text_to_lines(<<"[">> \o StrOf(speaker) \o <<"]", ":", " ">> \o Strip(text),
                           max_line_length) \o <<"\n", "\n">> >>

\* the three strings one flush writes (lines 103-110 and 134-141)
EntryWrites(sequence, start_time, end_time, speaker, text, max_line_length) ==
    << StrOfInt(sequence) \o <<"\n">>,
       format_srt_time(SecondsOfTicks(start_time)) \o <<" ", "-", "-", ">", " ">>
          \o format_srt_time(SecondsOfTicks(end_time)) \o <<"\n">>,
       _wrap_text_to_lines(<<"[">> \o StrOf(speaker) \o <<"]", ":", " ">> \o Strip(text),
                           max_line_length) \o <<"\n", "\n">> >>

\* word_info['speaker'] and word_info['text'] of a word that passed the filter
SrtSpeaker(w) == IF "speaker" \in w.nulls THEN None ELSE w.speaker

\* a text of None is kept as <<>>: a phrase_text of None is only ever tested
\* for truth, and there None and "" are both false
SrtText(w) == IF "text" \in w.nulls THEN <<>> ELSE w.text

\* lines 81-87: the local variables of save_to_srt and the file, at the start
SrtStart ==
    [srt_sequence |-> 1, phrase_start_time |-> <<>>, phrase_end_time |-> <<>>,
     phrase_text |-> <<>>, current_speaker_srt |-> None, words_in_phrase |-> 0,
     last_word_end_time |-> 0, f_srt |-> <<>>]

\* the condition of line 102 for the word w at list position index
PhraseFlushes(acc, index, w, options) ==
    /\ acc.phrase_text # <<>>
    /\ \/ IsNewSpeaker(acc.current_speaker_srt, SrtSpeaker(w))
       \/ IsLongGap(index, w.start, acc.last_word_end_time, options.speaker_gap_threshold)
       \/ IsPhraseTooLong(acc.words_in_phrase, options.max_words_per_entry)

\* the strings a flush of the open phrase writes
PhraseWrites(acc, options) ==
    EntryWrites(acc.srt_sequence, acc.phrase_start_time, acc.phrase_end_time,
                acc.current_speaker_srt, acc.phrase_text, options.max_line_length)

\* mutant of NextSequence: the counter stays where it is
SameSequence(n) == n

\* line 111
NextSequence(n) == n + 1

\* lines 102-112: the variables after the flush, if one is due
AfterFlush(acc, index, w, options) ==
    IF PhraseFlushes(acc, index, w, options)
    THEN [acc EXCEPT !.f_srt = @ \o PhraseWrites(acc, options),
                     !.srt_sequence = NextSequence(@),
                     !.phrase_text = <<>>]
    ELSE acc

\* line 122 raises TypeError: " " + None, reached with a phrase open that this
\* word does not flush
SrtRaises(acc, index, w, options) ==
    /\ "text" \in w.nulls
    /\ AfterFlush(acc, index, w, options).phrase_text # <<>>
    /\ ~IsNewSpeaker(acc.current_speaker_srt, SrtSpeaker(w))

\* lines 98-131: the loop body for a word that passed the filter, when it does
\* not raise
SrtLoopBody(acc, index, w, options) ==
    LET is_new_speaker == IsNewSpeaker(acc.current_speaker_srt, SrtSpeaker(w))
        flushed == AfterFlush(acc, index, w, options)
        started == [flushed EXCEPT !.current_speaker_srt = SrtSpeaker(w),
                                   !.phrase_start_time = <<w.start>>,
                                   !.phrase_text = SrtText(w),
                                   !.words_in_phrase = 1,
                                   !.phrase_end_time = <<w.end>>]
        appended == [flushed EXCEPT !.phrase_text = @ \o <<" ">> \o SrtText(w),
                                    !.phrase_end_time = <<w.end>>,
                                    !.words_in_phrase = @ + 1]
        after == IF flushed.phrase_text = <<>> THEN started
                 ELSE IF ~is_new_speaker THEN appended
                 ELSE started
    IN  [after EXCEPT !.last_word_end_time = w.end]

\* mutant of LastPhraseWrites: the phrase open at the end is dropped
LastPhraseDropped(acc, options) == <<>>

\* lines 133-141: what the flush after the loop writes
LastPhraseWrites(acc, options) ==
    IF acc.phrase_text # <<>> THEN PhraseWrites(acc, options) ELSE <<>>

\* lines 89-131 from list position index on, for a list no word of which
\* raises and with every write succeeding
RECURSIVE SrtLoop(_, _, _, _)
SrtLoop(acc, index, list, options) ==
    IF index = Len(list) THEN acc
    ELSE IF SrtSkips(list[index + 1]) THEN SrtLoop(acc, index + 1, list, options)
    ELSE SrtLoop(SrtLoopBody(acc, index, list[index + 1], options), index + 1,
                 list, options)

\* lines 80-142: the file such a call leaves
SrtFileOf(list, options) ==
    LET acc == SrtLoop(SrtStart, 0, list, options)
    IN  acc.f_srt \o LastPhraseWrites(acc, options)

(***************************************************************************)
(* The per-word assignment on its own: a sorted table of turns and one     *)
(* word are drawn, and FindSpeaker applies _find_speaker_for_word.         *)
(***************************************************************************)
SortedTables == {ts \in SeqsUpTo(ValidTurns, MaxTableLen) : IsSortedByStart(ts)}

FindWords == {w \in [start : 0..MaxTime, end : 0..MaxTime,
                       text : {<<"w">>}, word_index : {0}] : w.start <= w.end}

IdleAlign ==
    /\ segments = <<>>
    /\ speaker_turns = <<>>
    /\ turns_passed = <<>>
    /\ max_workers = 1
    /\ target_chunk_size = 1
    /\ words_to_process = <<>>
    /\ num_workers = 0
    /\ chunksize = 0
    /\ taken = 0
    /\ running = {}
    /\ chunk_results = <<>>
    /\ raised = FALSE
    /\ ret = None
    /\ total_words = 0

IdleTxt ==
    /\ current_speaker_txt = None
    /\ current_line_txt = <<>>
    /\ f_txt = <<>>

IdleSrt ==
    /\ srt_options = None
    /\ srt_sequence = 1
    /\ phrase_start_time = None
    /\ phrase_end_time = None
    /\ phrase_text = <<>>
    /\ current_speaker_srt = None
    /\ words_in_phrase = 0
    /\ last_word_end_time = 0
    /\ f_srt = <<>>

IdleHelpers ==
    /\ wrap_call = None
    /\ line_to_write = <<>>
    /\ seconds_given = <<>>
    /\ srt_time = <<>>

NoResponse == [request |-> "none", job_id |-> 0, status_code |-> 0]

IdleApi ==
    /\ jobs = <<>>
    /\ tasks = <<>>
    /\ files = {}
    /\ response = NoResponse

IdlePipeline ==
    /\ outcomes = None
    /\ calls = <<>>
    /\ processing_successful = FALSE
    /\ main_returned = None
    /\ job_status = None

IdleSave ==
    /\ aligned_words = <<>>
    /\ next_i = 0
    /\ saved = None
    /\ IdleTxt
    /\ IdleSrt

InitFind ==
    /\ pc = "find"
    /\ speaker_turns_tuple \in SortedTables
    /\ word_info \in FindWords
    /\ IdleAlign
    /\ IdleHelpers
    /\ IdleApi
    /\ IdlePipeline
    /\ IdleSave

FindSpeaker ==
    /\ pc = "find"
    /\ word_info' = _find_speaker_for_word(word_info, speaker_turns_tuple)
    /\ pc' = "found"
    /\ UNCHANGED <<speaker_turns_tuple, alignVars, saveVars, helperVars, apiVars, total_words, pipelineVars>>

NextFind == FindSpeaker

SpecFind == InitFind /\ [][NextFind]_vars


(***************************************************************************)
(* Claims about the per-word assignment, checked under SpecFind.           *)
(***************************************************************************)
\* the word's interval [start, end] lies inside the turn's interval
WordInsideTurn(w, turn) == turn.start <= w.start /\ w.end <= turn.end

TurnsAroundWord == {i \in 1..Len(speaker_turns_tuple) :
                      WordInsideTurn(word_info, speaker_turns_tuple[i])}

\* the turns whose half-open interval [start, end) contains the word's midpoint
TurnsAtMidpoint == {i \in 1..Len(speaker_turns_tuple) :
                      /\ 2 * speaker_turns_tuple[i].start <= word_midpoint2(word_info)
                      /\ word_midpoint2(word_info) < 2 * speaker_turns_tuple[i].end}

LatestTurnsAtMidpoint ==
    {i \in TurnsAtMidpoint :
       \A j \in TurnsAtMidpoint :
          speaker_turns_tuple[j].start <= speaker_turns_tuple[i].start}

\* C2: a word of positive duration whose interval lies fully inside exactly one
\* turn of the table is assigned that turn's speaker, whatever other turns the
\* table holds.  (Words of zero duration are left out here, so that a word
\* sitting exactly on its turn's end does not count against the claim.)
C2_WordInsideOneTurnGetsItsSpeaker ==
    (/\ pc = "found"
     /\ word_info.start < word_info.end
     /\ Cardinality(TurnsAroundWord) = 1)
    => \A i \in TurnsAroundWord : word_info.speaker = speaker_turns_tuple[i].speaker

\* C3: when two or more turns contain the word's midpoint, the assigned speaker
\* is that of a containing turn with the greatest start.
C3_LatestContainingTurnWins ==
    (pc = "found" /\ Cardinality(TurnsAtMidpoint) >= 2)
    => \E i \in LatestTurnsAtMidpoint : word_info.speaker = speaker_turns_tuple[i].speaker

\* no two turns of the table share a point of their half-open intervals
NonOverlapping(ts) ==
    \A i, j \in 1..Len(ts) :
       i # j => (ts[i].end <= ts[j].start \/ ts[j].end <= ts[i].start)

\* C7: on a table of pairwise non-overlapping turns (the empty table included)
\* the assigned speaker is the speaker of the one turn with start <= m < end,
\* and UNKNOWN when no turn contains the midpoint m.
C7_NonOverlappingAssignment ==
    (pc = "found" /\ NonOverlapping(speaker_turns_tuple))
    => /\ Cardinality(TurnsAtMidpoint) <= 1
       /\ \A i \in TurnsAtMidpoint : word_info.speaker = speaker_turns_tuple[i].speaker
       /\ TurnsAtMidpoint = {} => word_info.speaker = UNKNOWN

\* C7 witness: the midpoint sits on the end of one turn and the start of the
\* next, and the word went to the turn that starts there.
C7_Witness ==
    /\ pc = "found"
    /\ Len(speaker_turns_tuple) = 2
    /\ NonOverlapping(speaker_turns_tuple)
    /\ speaker_turns_tuple[1].speaker # speaker_turns_tuple[2].speaker
    /\ word_midpoint2(word_info) = 2 * speaker_turns_tuple[1].end
    /\ word_midpoint2(word_info) = 2 * speaker_turns_tuple[2].start
    /\ word_info.speaker = speaker_turns_tuple[2].speaker

\* lines 37-46 for the word w and the table ts: the candidate check of line
\* 39 fails and the check of the following turn (line 44) succeeds, so that
\* line 46 assigns the speaker
FallbackDecides(w, ts) ==
    LET m2 == word_midpoint2(w)
        potential_turn_index == bisect_right(turn_start_times2(ts), m2, 0, Len(ts)) - 1
        next_turn_index == potential_turn_index + 1
    IN  /\ ts # <<>>
        /\ ~(potential_turn_index >= 0 /\ MidpointInTurn(m2, ts[potential_turn_index + 1]))
        /\ next_turn_index < Len(ts)
        /\ MidpointInTurn(m2, ts[next_turn_index + 1])

\* C29, as claimed: on a table sorted ascending by start the inspection of
\* the following turn can assign a speaker: there are a sorted table and a
\* word for which the rightmost turn with start <= m does not contain m and
\* the following turn has next.start <= m < next.end, so that the fallback
\* decides the speaker.
C29_FallbackCanDecide ==
    pc = "find"
    => \E ts \in SortedTables : \E w \in FindWords : FallbackDecides(w, ts)

\* the position of the rightmost turn with start <= m, 0 if there is none
RightmostStarted ==
    LET started == {i \in 1..Len(speaker_turns_tuple) :
                      2 * speaker_turns_tuple[i].start <= word_midpoint2(word_info)}
    IN  IF started = {} THEN 0
        ELSE CHOOSE i \in started : \A j \in started : j <= i

\* the rightmost turn with start <= m is missing or does not contain m
CandidateFails ==
    \/ RightmostStarted = 0
    \/ ~MidpointInTurn(word_midpoint2(word_info), speaker_turns_tuple[RightmostStarted])

\* C29, amended: on a table sorted ascending by start the inspection of the
\* following turn never assigns a speaker: whenever the rightmost turn with
\* start <= m does not contain m, the following turn (if there is one)
\* starts after m, and the word is assigned UNKNOWN.
C29_FallbackNeverDecides ==
    pc = "found"
    => /\ ~FallbackDecides(word_info, speaker_turns_tuple)
       /\ CandidateFails
          => /\ RightmostStarted < Len(speaker_turns_tuple)
                => 2 * speaker_turns_tuple[RightmostStarted + 1].start
                      > word_midpoint2(word_info)
             /\ word_info.speaker = UNKNOWN

\* C29 witness: the midpoint lies in the gap between the candidate turn and
\* the turn that follows it, and the word is UNKNOWN.
C29_Witness ==
    /\ pc = "found"
    /\ RightmostStarted >= 1
    /\ RightmostStarted < Len(speaker_turns_tuple)
    /\ CandidateFails
    /\ word_midpoint2(word_info) >= 2 * speaker_turns_tuple[RightmostStarted].end
    /\ word_info.speaker = UNKNOWN


(***************************************************************************)
(* One call of align_speech_and_speakers.  The caller's word stream, its   *)
(* list of turns and the configuration are drawn in InitAlign.  Word i of  *)
(* the stream is either blank or a spoken word over ticks 2(i-1)..2i-1.    *)
(***************************************************************************)
SpokenWord(i) == [start |-> 2 * (i - 1), end |-> 2 * i - 1,
                  word |-> IF i % 2 = 1 THEN <<" ", "a">> ELSE <<"b", " ">>]

BlankWord(i) == [start |-> 2 * (i - 1), end |-> 2 * i - 1, word |-> <<" ">>]

WordStreams == UNION {{s \in [1..n -> UNION {{SpokenWord(i), BlankWord(i)} : i \in 1..n}] :
                         \A i \in 1..n : s[i] \in {SpokenWord(i), BlankWord(i)}} :
                      n \in 0..MaxWords}

AlignTurns == {[start |-> 0, end |-> 3, speaker |-> "SPEAKER_00"],
               [start |-> 2, end |-> 6, speaker |-> "SPEAKER_01"],
               [start |-> 0, end |-> 6, speaker |-> "SPEAKER_01"]}

TurnLists == SeqsUpTo(AlignTurns, MaxTurns)

MaxWorkersChoices == {1, 2}

TargetChunkChoices == {1, 2}

InitAlign ==
    /\ pc = "call"
    /\ segments \in WordStreams
    /\ speaker_turns \in TurnLists
    /\ turns_passed = speaker_turns
    /\ max_workers \in MaxWorkersChoices
    /\ target_chunk_size \in TargetChunkChoices
    /\ words_to_process = <<>>
    /\ speaker_turns_tuple = <<>>
    /\ num_workers = 0
    /\ chunksize = 0
    /\ taken = 0
    /\ running = {}
    /\ chunk_results = <<>>
    /\ raised = FALSE
    /\ ret = None
    /\ total_words = 0
    /\ word_info = None
    /\ IdleSave
    /\ IdleHelpers
    /\ IdleApi
    /\ IdlePipeline

\* lines 63-111: up to the creation of the pool
AlignPrepare ==
    /\ pc = "call"
    /\ LET words == PrepareWords(segments, <<>>)
           total == Len(words)
           workers == NumWorkers(total, target_chunk_size, max_workers)
           size == ChunkSize(total, workers)
       IN  IF words = <<>>
           THEN /\ ret' = NoWordsResult
                /\ pc' = "done"
                /\ words_to_process' = words
                /\ UNCHANGED <<speaker_turns, speaker_turns_tuple, num_workers,
                               chunksize, chunk_results, total_words>>
           ELSE /\ words_to_process' = words
                /\ total_words' = total
                /\ speaker_turns' = SortedInPlace(speaker_turns)
                /\ speaker_turns_tuple' = speaker_turns'
                /\ num_workers' = workers
                /\ chunksize' = size
                /\ chunk_results' = [k \in 1..NumChunks(total, size) |-> <<>>]
                /\ pc' = "pool"
                /\ ret' = ret
    /\ UNCHANGED <<segments, turns_passed, max_workers, target_chunk_size, taken,
                   running, raised, word_info, helperVars, apiVars, pipelineVars, saveVars>>

\* an idle worker of the pool takes the next chunk of the task queue
WorkerTake ==
    /\ pc = "pool"
    /\ taken < Len(chunk_results)
    /\ Cardinality(running) < num_workers
    /\ taken' = taken + 1
    /\ running' = running \cup {taken + 1}
    /\ UNCHANGED <<pc, segments, speaker_turns, turns_passed, max_workers,
                   target_chunk_size, words_to_process, speaker_turns_tuple,
                   num_workers, chunksize, chunk_results, raised, ret, word_info, helperVars, apiVars, total_words, pipelineVars, saveVars>>

\* a worker finishes its chunk and hands the chunk's results back
WorkerFinish(k) ==
    /\ pc = "pool"
    /\ k \in running
    /\ chunk_results' = [chunk_results EXCEPT
                           ![k] = MapChunk(Chunk(words_to_process, chunksize, k),
                                           speaker_turns_tuple)]
    /\ running' = running \ {k}
    /\ UNCHANGED <<pc, segments, speaker_turns, turns_passed, max_workers,
                   target_chunk_size, words_to_process, speaker_turns_tuple,
                   num_workers, chunksize, taken, raised, ret, word_info, helperVars, apiVars, total_words, pipelineVars, saveVars>>

\* lines 117-128: what every except clause does
CatchFailure ==
    /\ raised' = TRUE
    /\ ret' = FailureResult
    /\ pc' = "done"
    /\ UNCHANGED <<segments, speaker_turns, turns_passed, max_workers,
                   target_chunk_size, words_to_process, speaker_turns_tuple,
                   num_workers, chunksize, taken, running, chunk_results, word_info, helperVars, apiVars, total_words, pipelineVars,
                   saveVars>>

\* multiprocessing.Pool(processes=num_workers) raises: the pool cannot be set up
PoolRaises ==
    /\ pc = "pool"
    /\ taken = 0
    /\ CatchFailure

\* a worker's task raises, and pool.map raises it again in the caller
WorkerRaises(k) ==
    /\ pc = "pool"
    /\ k \in running
    /\ CatchFailure

\* line 116 and 131: pool.map returns the chunks' results in chunk order
MapReturns ==
    /\ pc = "pool"
    /\ \A k \in 1..Len(chunk_results) : chunk_results[k] # <<>>
    /\ ret' = Concat(chunk_results)
    /\ pc' = "done"
    /\ UNCHANGED <<segments, speaker_turns, turns_passed, max_workers,
                   target_chunk_size, words_to_process, speaker_turns_tuple,
                   num_workers, chunksize, taken, running, chunk_results, raised,
                   word_info, helperVars, apiVars, total_words, pipelineVars, saveVars>>

NextAlign ==
    \/ AlignPrepare
    \/ WorkerTake
    \/ \E k \in running : WorkerFinish(k)
    \/ PoolRaises
    \/ \E k \in running : WorkerRaises(k)
    \/ MapReturns

SpecAlign == InitAlign /\ [][NextAlign]_vars


(***************************************************************************)
(* Claims about align_speech_and_speakers, checked under SpecAlign.        *)
(***************************************************************************)
IsBlank(text) == \A i \in 1..Len(text) : text[i] = " "

HasText(word) == ~IsBlank(word.word)

\* the input words whose stripped text is not empty, in input order
RetainedInput == SelectSeq(segments, HasText)

\* one record per retained word, in input order, numbered from 0
OneRecordPerRetainedWord(result) ==
    /\ Len(result) = Len(RetainedInput)
    /\ \A i \in 1..Len(result) :
          /\ result[i].start = RetainedInput[i].start
          /\ result[i].end = RetainedInput[i].end
          /\ result[i].text = Strip(RetainedInput[i].word)
          /\ result[i].word_index = i - 1

\* C1: whatever the words and turns, the call returns exactly one record per
\* input word with non-empty stripped text, in input order, the i-th record
\* carrying the i-th retained word's start, end, stripped text and index.
C1_OneRecordPerRetainedWord ==
    pc = "done" => OneRecordPerRetainedWord(ret)

\* C1, supporting: the records are as claimed whenever no failure was caught.
C1_HoldsWithoutFailure ==
    (pc = "done" /\ ~raised) => OneRecordPerRetainedWord(ret)

\* C4: what the call hands back after a worker or pool failure differs from
\* what it hands back when there was nothing to align.
C4_FailureDistinctFromEmpty ==
    (pc = "done" /\ raised) => ret # NoWordsResult

\* C5: when the call has returned, the caller's list of turns holds the same
\* elements in the same order as when the call was made.
C5_CallerTurnsUntouched ==
    pc = "done" => speaker_turns = turns_passed

\* the per-word assignment applied to the retained words one after the other
SequentialAlign ==
    LET words == PrepareWords(segments, <<>>)
        table == SortByStart(turns_passed, <<>>)
    IN  [i \in 1..Len(words) |-> _find_speaker_for_word(words[i], table)]

\* C6: whatever the worker count and chunk size, the returned sequence is the
\* one the sequential per-word assignment gives, so any two configurations
\* return the same sequence for the same words and turns.
C6_ParallelismTransparent ==
    pc = "done" => ret = SequentialAlign

\* C6, supporting: the equality holds whenever no failure was caught.
C6_HoldsWithoutFailure ==
    (pc = "done" /\ ~raised) => ret = SequentialAlign

\* every chunk of the task queue has been taken and handed back
AllChunksProcessed ==
    /\ taken = Len(chunk_results)
    /\ running = {}
    /\ \A k \in 1..Len(chunk_results) : chunk_results[k] # <<>>

\* position i of the result holds retained word i
InOriginalIndexOrder(result) ==
    /\ Len(result) = Len(words_to_process)
    /\ \A i \in 1..Len(result) :
          /\ result[i].word_index = words_to_process[i].word_index
          /\ result[i].text = words_to_process[i].text

\* C22: the call is a blocking ordered parallel map: it returns to the
\* caller only after every chunk has been processed, and in whatever order
\* the workers finish their chunks the returned sequence lists the words in
\* original index order.
C22_BlockingOrderedMap ==
    (pc = "done" /\ words_to_process # <<>>)
    => (AllChunksProcessed /\ InOriginalIndexOrder(ret))

\* C22, supporting: both hold of every call in which no failure was caught,
\* whatever the order in which the chunks were finished.
C22_HoldsWithoutFailure ==
    (pc = "done" /\ words_to_process # <<>> /\ ~raised)
    => (AllChunksProcessed /\ InOriginalIndexOrder(ret))

\* the orders in which the caller may supply the turns it passed
TurnOrders ==
    {[i \in 1..Len(turns_passed) |-> turns_passed[f[i]]] :
        f \in Permutations(1..Len(turns_passed))}

\* what a call that catches no failure returns for the turns in the order ts
AlignedWith(ts) ==
    LET words == PrepareWords(segments, <<>>)
        table == SortByStart(ts, <<>>)
    IN  [i \in 1..Len(words) |-> _find_speaker_for_word(words[i], table)]

\* C28: the result does not depend on the order in which the caller supplies
\* the turns: for every order of the same turns (turns with equal starts that
\* overlap included) every word is given the speaker it is given by this call.
C28_TurnOrderIrrelevant ==
    (pc = "done" /\ ~raised)
    => \A ts \in TurnOrders :
          /\ Len(AlignedWith(ts)) = Len(ret)
          /\ \A i \in 1..Len(ret) : AlignedWith(ts)[i].speaker = ret[i].speaker

\* C28, supporting: the order is irrelevant when no two turns start together
C28_HoldsForDistinctStarts ==
    (/\ pc = "done"
     /\ ~raised
     /\ \A i, j \in 1..Len(turns_passed) :
           i # j => turns_passed[i].start # turns_passed[j].start)
    => \A ts \in TurnOrders :
          /\ Len(AlignedWith(ts)) = Len(ret)
          /\ \A i \in 1..Len(ret) : AlignedWith(ts)[i].speaker = ret[i].speaker

\* C22, supporting: a later chunk is handed back before an earlier one
C22_ChunksFinishOutOfOrder ==
    /\ pc = "pool"
    /\ \E j, k \in 1..Len(chunk_results) :
          j < k /\ chunk_results[j] = <<>> /\ chunk_results[k] # <<>>


(***************************************************************************)
(* alignment.py lines 91-107 on their own: the worker count and the chunk  *)
(* size for every word count of 1..MaxTotalWords and every configuration   *)
(* of 0..MaxConfigValue (config.py reads both values from the user's       *)
(* configuration file as int).                                             *)
(***************************************************************************)
InitSizing ==
    /\ pc = "sizing"
    /\ total_words \in 1..MaxTotalWords
    /\ max_workers \in 0..MaxConfigValue
    /\ target_chunk_size \in 0..MaxConfigValue
    /\ segments = <<>>
    /\ speaker_turns = <<>>
    /\ turns_passed = <<>>
    /\ words_to_process = <<>>
    /\ num_workers = 0
    /\ chunksize = 0
    /\ taken = 0
    /\ running = {}
    /\ chunk_results = <<>>
    /\ raised = FALSE
    /\ ret = None
    /\ speaker_turns_tuple = <<>>
    /\ word_info = None
    /\ IdleSave
    /\ IdleHelpers
    /\ IdleApi
    /\ IdlePipeline

\* lines 95-103
SizeWorkers ==
    /\ pc = "sizing"
    /\ num_workers' = NumWorkers(total_words, target_chunk_size, max_workers)
    /\ pc' = "workers_sized"
    /\ UNCHANGED <<total_words, max_workers, target_chunk_size, chunksize, segments,
                   speaker_turns, turns_passed, words_to_process, taken, running,
                   chunk_results, raised, ret, speaker_turns_tuple, word_info,
                   saveVars, helperVars, apiVars, pipelineVars>>

\* lines 106-107
SizeChunks ==
    /\ pc = "workers_sized"
    /\ chunksize' = ChunkSize(total_words, num_workers)
    /\ pc' = "sized"
    /\ UNCHANGED <<total_words, max_workers, target_chunk_size, num_workers, segments,
                   speaker_turns, turns_passed, words_to_process, taken, running,
                   chunk_results, raised, ret, speaker_turns_tuple, word_info,
                   saveVars, helperVars, apiVars, pipelineVars>>

NextSizing == SizeWorkers \/ SizeChunks

SpecSizing == InitSizing /\ [][NextSizing]_vars

\* C23: for every word count n >= 1 and configuration, the worker count is
\* max(1, min(max_workers, ceil(n / target_chunk_size))) and the chunk size
\* is max(1, ceil(n / (workers * 4))); hence 1 <= workers <=
\* max(1, max_workers), chunk size >= 1 and workers * 4 * chunk size >= n.
\* (The quotient n / target_chunk_size is defined for target_chunk_size # 0.)
C23_WorkerCountAndChunkSize ==
    pc = "sized"
    => /\ target_chunk_size # 0
          => num_workers = Max(1, Min(max_workers,
                                      CeilDiv(total_words, target_chunk_size)))
       /\ chunksize = Max(1, CeilDiv(total_words, num_workers * 4))
       /\ 1 <= num_workers
       /\ num_workers <= Max(1, max_workers)
       /\ chunksize >= 1
       /\ num_workers * 4 * chunksize >= total_words

\* several workers, each with chunks of more than one word
C23_Witness ==
    /\ pc = "sized"
    /\ num_workers = 2
    /\ max_workers > 2
    /\ chunksize = 2
    /\ total_words > 2 * 4


(***************************************************************************)
(* One call of save_to_txt.  The list of word dicts is drawn in InitTxt:   *)
(* words of three labels and two texts, a word without a speaker key and a *)
(* word with empty text.                                                   *)
(***************************************************************************)
SaveSpeakers == {"A", "B"}

TxtWordDicts ==
    {WordDict(WordKeys, {}, 0, 1, t, k) :
        t \in {<<"a">>, <<"b", "c">>}, k \in SaveSpeakers \cup {UNKNOWN}}
    \cup {WordDict(WordKeys \ {"speaker"}, {}, 0, 1, <<"a">>, None),
          WordDict(WordKeys, {}, 0, 1, <<>>, "A")}

InitTxt ==
    /\ pc = "txt_open"
    /\ aligned_words \in SeqsUpTo(TxtWordDicts, MaxTxtWords)
    /\ next_i = 0
    /\ saved = None
    /\ IdleTxt
    /\ IdleSrt
    /\ IdleAlign
    /\ IdleHelpers
    /\ IdleApi
    /\ IdlePipeline
    /\ speaker_turns_tuple = <<>>
    /\ word_info = None

\* line 34: open(filepath, "w") gives an empty file
TxtOpen ==
    /\ pc = "txt_open"
    /\ f_txt' = <<>>
    /\ current_speaker_txt' = None
    /\ current_line_txt' = <<>>
    /\ pc' = "txt_loop"
    /\ UNCHANGED <<aligned_words, next_i, saved, srtVars, alignVars,
                   speaker_turns_tuple, word_info, helperVars, apiVars, total_words, pipelineVars>>

\* mutant of TxtCatch: the exception is swallowed and True is returned
TxtCatchReturnsTrue ==
    /\ saved' = TRUE
    /\ pc' = "txt_done"
    /\ UNCHANGED <<aligned_words, next_i, txtVars, srtVars, alignVars,
                   speaker_turns_tuple, word_info, helperVars, apiVars, total_words, pipelineVars>>

\* line 47: an exception of open or write is caught and False is returned
TxtCatch ==
    /\ saved' = FALSE
    /\ pc' = "txt_done"
    /\ UNCHANGED <<aligned_words, next_i, txtVars, srtVars, alignVars,
                   speaker_turns_tuple, word_info, helperVars, apiVars, total_words, pipelineVars>>

TxtOpenFails ==
    /\ pc = "txt_open"
    /\ TxtCatch

\* the loop body of lines 37-44 writes a paragraph for this word
TxtWordWrites(w) ==
    /\ ~TxtSkips(w)
    /\ TxtSpeakerChanged(current_speaker_txt, TxtSpeaker(w))
    /\ current_line_txt # <<>>

\* lines 37-44: one iteration of the loop
TxtWord ==
    /\ pc = "txt_loop"
    /\ next_i < Len(aligned_words)
    /\ LET w == aligned_words[next_i + 1]
           speaker == TxtSpeaker(w)
           text == w.text
       IN  IF TxtSkips(w)
           THEN UNCHANGED txtVars
           ELSE IF TxtSpeakerChanged(current_speaker_txt, speaker)
           THEN /\ f_txt' = IF current_line_txt # <<>>
                            THEN Append(f_txt, TxtParagraph(current_speaker_txt,
                                                            current_line_txt))
                            ELSE f_txt
                /\ current_speaker_txt' = speaker
                /\ current_line_txt' = text
           ELSE /\ current_line_txt' = current_line_txt \o <<" ">> \o text
                /\ UNCHANGED <<f_txt, current_speaker_txt>>
    /\ next_i' = next_i + 1
    /\ UNCHANGED <<pc, aligned_words, saved, srtVars, alignVars,
                   speaker_turns_tuple, word_info, helperVars, apiVars, total_words, pipelineVars>>

\* the write of line 42 raises
TxtWordFails ==
    /\ pc = "txt_loop"
    /\ next_i < Len(aligned_words)
    /\ TxtWordWrites(aligned_words[next_i + 1])
    /\ TxtCatch

\* what the file holds after the flush of line 45
TxtFlushed(file, speaker, line) ==
    IF line # <<>> THEN Append(file, TxtParagraph(speaker, line)) ELSE file

\* lines 45-46: the last paragraph is written and True is returned
TxtFinish ==
    /\ pc = "txt_loop"
    /\ next_i = Len(aligned_words)
    /\ f_txt' = TxtFlushed(f_txt, current_speaker_txt, current_line_txt)
    /\ saved' = TRUE
    /\ pc' = "txt_done"
    /\ UNCHANGED <<aligned_words, next_i, current_speaker_txt, current_line_txt,
                   srtVars, alignVars, speaker_turns_tuple, word_info, helperVars, apiVars, total_words, pipelineVars>>

\* the write of line 45 raises
TxtFinishFails ==
    /\ pc = "txt_loop"
    /\ next_i = Len(aligned_words)
    /\ current_line_txt # <<>>
    /\ TxtCatch

NextTxt ==
    \/ TxtOpen
    \/ TxtOpenFails
    \/ TxtWord
    \/ TxtWordFails
    \/ TxtFinish
    \/ TxtFinishFails

SpecTxt == InitTxt /\ [][NextTxt]_vars

(***************************************************************************)
(* Claims about save_to_txt, checked under SpecTxt.                        *)
(***************************************************************************)
\* the words save_to_txt writes: those that have a non-empty text
HasTxtText(w) == "text" \in w.keys /\ "text" \notin w.nulls /\ w.text # <<>>

WrittenWords == SelectSeq(aligned_words, HasTxtText)

\* the label a word is written under; a word without a speaker key counts
\* as UNKNOWN
LabelOf(w) == IF "speaker" \in w.keys THEN w.speaker ELSE UNKNOWN

\* the length of the maximal run of equal labels that starts the sequence v
FirstRunLen(v) ==
    CHOOSE n \in 1..Len(v) :
       /\ \A j \in 1..n : LabelOf(v[j]) = LabelOf(v[1])
       /\ n = Len(v) \/ LabelOf(v[n + 1]) # LabelOf(v[1])

\* the maximal runs of consecutive words with the same label, in order
RECURSIVE RunsOf(_)
RunsOf(v) ==
    IF v = <<>> THEN <<>>
    ELSE <<SubSeq(v, 1, FirstRunLen(v))>> \o RunsOf(SubSeq(v, FirstRunLen(v) + 1, Len(v)))

\* the texts of the words of a run joined by single spaces
RECURSIVE JoinTexts(_)
JoinTexts(run) ==
    IF Len(run) = 1 THEN run[1].text
    ELSE run[1].text \o <<" ">> \o JoinTexts(Tail(run))

\* "[SPEAKER]: " followed by the joined texts and the line end
RunLine(run) ==
    <<"[">> \o StrOf(LabelOf(run[1])) \o <<"]", ":", " ">> \o JoinTexts(run) \o <<"\n">>

\* the part of a written line up to the closing bracket of its label
LabelPart(line) ==
    SubSeq(line, 1, CHOOSE n \in 1..Len(line) :
                       line[n] = "]" /\ \A m \in 1..(n - 1) : line[m] # "]")

\* C8: a completed save_to_txt has written exactly one line per maximal run
\* of consecutive same-label words, in input order, each "[SPEAKER]: " plus
\* the run's texts joined by single spaces; consecutive lines carry
\* different labels, the last run is written too, and UNKNOWN is a label
\* like any other.
C8_OneLinePerSpeakerRun ==
    (pc = "txt_done" /\ saved = TRUE)
    => LET runs == RunsOf(WrittenWords)
       IN  /\ Len(f_txt) = Len(runs)
           /\ \A k \in 1..Len(runs) : f_txt[k] = RunLine(runs[k])
           /\ \A k \in 1..(Len(f_txt) - 1) : LabelPart(f_txt[k]) # LabelPart(f_txt[k + 1])

\* C8 witness: three lines were written, the middle one for an UNKNOWN run
\* between two runs of the same speaker, the first for a run of two words.
C8_Witness ==
    /\ pc = "txt_done"
    /\ saved = TRUE
    /\ Len(f_txt) = 3
    /\ f_txt[1] = <<"[", "A", "]", ":", " ", "a", " ", "b", "c", "\n">>
    /\ LabelPart(f_txt[2]) = <<"[">> \o StrOf(UNKNOWN) \o <<"]">>
    /\ LabelPart(f_txt[3]) = <<"[", "A", "]">>


(***************************************************************************)
(* One call of save_to_srt.  The list of word dicts is built from a        *)
(* sequence of choices drawn in InitSrt: a word of speaker A or B that     *)
(* starts 0, 1.0 or 1.5 seconds after the end of the last well-formed word *)
(* and lasts half a second, a dict with start > end, or a dict without a   *)
(* speaker key.  The text of the word at position n is the n-th letter.    *)
(***************************************************************************)
LetterAt(n) == <<"a", "b", "c", "d", "e", "f", "g", "h">>[n]

GapChoices == {0, 2, 3}

SrtChoices ==
    [kind : {"word"}, gap : GapChoices, speaker : SaveSpeakers]
    \cup [kind : {"reversed", "nospeaker"}, gap : {0}, speaker : {"A"}]

RECURSIVE BuildWords(_, _, _)
BuildWords(choices, clock, acc) ==
    IF choices = <<>> THEN acc
    ELSE LET c == Head(choices)
             text == <<LetterAt(Len(acc) + 1)>>
         IN  CASE c.kind = "word" ->
                    BuildWords(Tail(choices), clock + c.gap + 1,
                               Append(acc, WordDict(WordKeys, {}, clock + c.gap,
                                                    clock + c.gap + 1, text, c.speaker)))
               [] c.kind = "reversed" ->
                    BuildWords(Tail(choices), clock,
                               Append(acc, WordDict(WordKeys, {}, clock + 1, clock,
                                                    text, c.speaker)))
               [] c.kind = "nulltext" ->
                    BuildWords(Tail(choices), clock + 1,
                               Append(acc, WordDict(WordKeys, {"text"}, clock,
                                                    clock + 1, <<>>, c.speaker)))
               [] c.kind = "emptytext" ->
                    BuildWords(Tail(choices), clock + 1,
                               Append(acc, WordDict(WordKeys, {}, clock,
                                                    clock + 1, <<>>, c.speaker)))
               [] c.kind = "nullspeaker" ->
                    BuildWords(Tail(choices), clock + 1,
                               Append(acc, WordDict(WordKeys, {"speaker"}, clock,
                                                    clock + 1, text, None)))
               [] c.kind = "nullstart" ->
                    BuildWords(Tail(choices), clock,
                               Append(acc, WordDict(WordKeys, {"start"}, 0,
                                                    clock + 1, text, c.speaker)))
               [] OTHER ->
                    BuildWords(Tail(choices), clock,
                               Append(acc, WordDict(WordKeys \ {"speaker"}, {}, clock,
                                                    clock + 1, text, None)))

SrtWordLists == {BuildWords(cs, 0, <<>>) : cs \in SeqsUpTo(SrtChoices, MaxSrtWords)}

\* max_line_length 0 switches wrapping off; the gap threshold is 1.0 second
SrtOptionChoices ==
    [max_line_length : {7}, max_words_per_entry : {<<1>>, <<2>>, <<3>>},
     speaker_gap_threshold : {2}]

InitSrt ==
    /\ pc = "srt_open"
    /\ aligned_words \in SrtWordLists
    /\ srt_options \in SrtOptionChoices
    /\ next_i = 0
    /\ saved = None
    /\ srt_sequence = 1
    /\ phrase_start_time = <<>>
    /\ phrase_end_time = <<>>
    /\ phrase_text = <<>>
    /\ current_speaker_srt = None
    /\ words_in_phrase = 0
    /\ last_word_end_time = 0
    /\ f_srt = <<>>
    /\ IdleTxt
    /\ IdleAlign
    /\ IdleHelpers
    /\ IdleApi
    /\ IdlePipeline
    /\ speaker_turns_tuple = <<>>
    /\ word_info = None

\* lists in which a record holds None under text, speaker or start, among
\* words of the two speakers that follow one another without a gap
NullChoices ==
    [kind : {"word"}, gap : {0}, speaker : SaveSpeakers]
    \cup [kind : {"nulltext", "nullspeaker", "nullstart"}, gap : {0}, speaker : {"A"}]

NullWordLists == {BuildWords(cs, 0, <<>>) : cs \in SeqsUpTo(NullChoices, MaxSrtWords)}

InitSrtNulls ==
    /\ pc = "srt_open"
    /\ aligned_words \in NullWordLists
    /\ srt_options \in SrtOptionChoices
    /\ next_i = 0
    /\ saved = None
    /\ srt_sequence = 1
    /\ phrase_start_time = <<>>
    /\ phrase_end_time = <<>>
    /\ phrase_text = <<>>
    /\ current_speaker_srt = None
    /\ words_in_phrase = 0
    /\ last_word_end_time = 0
    /\ f_srt = <<>>
    /\ IdleTxt
    /\ IdleAlign
    /\ IdleHelpers
    /\ IdleApi
    /\ IdlePipeline
    /\ speaker_turns_tuple = <<>>
    /\ word_info = None

\* lists in which a word has the empty string as its text, among words of
\* the two speakers that follow one another without a gap
EmptyTextChoices ==
    [kind : {"word", "emptytext"}, gap : {0}, speaker : SaveSpeakers]

EmptyTextWordLists ==
    {BuildWords(cs, 0, <<>>) : cs \in SeqsUpTo(EmptyTextChoices, MaxSrtWords)}

InitSrtEmpty ==
    /\ pc = "srt_open"
    /\ aligned_words \in EmptyTextWordLists
    /\ srt_options \in SrtOptionChoices
    /\ next_i = 0
    /\ saved = None
    /\ srt_sequence = 1
    /\ phrase_start_time = <<>>
    /\ phrase_end_time = <<>>
    /\ phrase_text = <<>>
    /\ current_speaker_srt = None
    /\ words_in_phrase = 0
    /\ last_word_end_time = 0
    /\ f_srt = <<>>
    /\ IdleTxt
    /\ IdleAlign
    /\ IdleHelpers
    /\ IdleApi
    /\ IdlePipeline
    /\ speaker_turns_tuple = <<>>
    /\ word_info = None

\* lines 80-87: open(filepath, "w") gives an empty file; the accumulator starts
SrtOpen ==
    /\ pc = "srt_open"
    /\ f_srt' = <<>>
    /\ srt_sequence' = 1
    /\ phrase_start_time' = <<>>
    /\ phrase_end_time' = <<>>
    /\ phrase_text' = <<>>
    /\ current_speaker_srt' = None
    /\ words_in_phrase' = 0
    /\ last_word_end_time' = 0
    /\ pc' = "srt_loop"
    /\ UNCHANGED <<aligned_words, srt_options, next_i, saved, txtVars, alignVars,
                   speaker_turns_tuple, word_info, helperVars, apiVars, total_words, pipelineVars>>

\* lines 143-147: an exception of open or write is caught and False is returned;
\* written holds the strings of the entry that reached the file before it
SrtCatch(written) ==
    /\ f_srt' = f_srt \o written
    /\ saved' = FALSE
    /\ pc' = "srt_done"
    /\ UNCHANGED <<aligned_words, srt_options, next_i, srt_sequence,
                   phrase_start_time, phrase_end_time, phrase_text,
                   current_speaker_srt, words_in_phrase, last_word_end_time,
                   txtVars, alignVars, speaker_turns_tuple, word_info, helperVars, apiVars, total_words, pipelineVars>>

SrtOpenFails ==
    /\ pc = "srt_open"
    /\ SrtCatch(<<>>)

\* the local variables of save_to_srt and the file, as they are now
SrtAccumulator ==
    [srt_sequence |-> srt_sequence, phrase_start_time |-> phrase_start_time,
     phrase_end_time |-> phrase_end_time, phrase_text |-> phrase_text,
     current_speaker_srt |-> current_speaker_srt, words_in_phrase |-> words_in_phrase,
     last_word_end_time |-> last_word_end_time, f_srt |-> f_srt]

\* the condition of line 102: the open phrase is written before this word
SrtFlushes(index, w) == PhraseFlushes(SrtAccumulator, index, w, srt_options)

\* the strings a flush of the open phrase writes
OpenPhraseWrites == PhraseWrites(SrtAccumulator, srt_options)

\* lines 89-131: one iteration of the loop; a TypeError of line 122 is caught
\* at line 143 and False is returned
SrtWord ==
    /\ pc = "srt_loop"
    /\ next_i < Len(aligned_words)
    /\ LET w == aligned_words[next_i + 1]
           after == SrtLoopBody(SrtAccumulator, next_i, w, srt_options)
       IN  IF SrtSkips(w)
           THEN /\ next_i' = next_i + 1
                /\ UNCHANGED <<pc, saved, srt_sequence, phrase_start_time,
                               phrase_end_time, phrase_text, current_speaker_srt,
                               words_in_phrase, last_word_end_time, f_srt>>
           ELSE IF SrtRaises(SrtAccumulator, next_i, w, srt_options)
           THEN /\ saved' = FALSE
                /\ pc' = "srt_done"
                /\ UNCHANGED <<next_i, srt_sequence, phrase_start_time,
                               phrase_end_time, phrase_text, current_speaker_srt,
                               words_in_phrase, last_word_end_time, f_srt>>
           ELSE /\ f_srt' = after.f_srt
                /\ srt_sequence' = after.srt_sequence
                /\ phrase_start_time' = after.phrase_start_time
                /\ phrase_end_time' = after.phrase_end_time
                /\ phrase_text' = after.phrase_text
                /\ current_speaker_srt' = after.current_speaker_srt
                /\ words_in_phrase' = after.words_in_phrase
                /\ last_word_end_time' = after.last_word_end_time
                /\ next_i' = next_i + 1
                /\ UNCHANGED <<pc, saved>>
    /\ UNCHANGED <<aligned_words, srt_options, txtVars, alignVars,
                   speaker_turns_tuple, word_info, helperVars, apiVars, total_words, pipelineVars>>

\* one of the three writes of lines 103-110 raises
SrtWordFails ==
    /\ pc = "srt_loop"
    /\ next_i < Len(aligned_words)
    /\ ~SrtSkips(aligned_words[next_i + 1])
    /\ SrtFlushes(next_i, aligned_words[next_i + 1])
    /\ \E n \in 0..2 : SrtCatch(SubSeq(OpenPhraseWrites, 1, n))

\* lines 133-142: the last phrase is written and True is returned
SrtFinish ==
    /\ pc = "srt_loop"
    /\ next_i = Len(aligned_words)
    /\ f_srt' = f_srt \o LastPhraseWrites(SrtAccumulator, srt_options)
    /\ saved' = TRUE
    /\ pc' = "srt_done"
    /\ UNCHANGED <<aligned_words, srt_options, next_i, srt_sequence,
                   phrase_start_time, phrase_end_time, phrase_text,
                   current_speaker_srt, words_in_phrase, last_word_end_time,
                   txtVars, alignVars, speaker_turns_tuple, word_info, helperVars, apiVars, total_words,
                   pipelineVars>>

\* one of the three writes of lines 134-141 raises
SrtFinishFails ==
    /\ pc = "srt_loop"
    /\ next_i = Len(aligned_words)
    /\ phrase_text # <<>>
    /\ \E n \in 0..2 : SrtCatch(SubSeq(OpenPhraseWrites, 1, n))

NextSrt ==
    \/ SrtOpen
    \/ SrtOpenFails
    \/ SrtWord
    \/ SrtWordFails
    \/ SrtFinish
    \/ SrtFinishFails

SpecSrt == InitSrt /\ [][NextSrt]_vars

SpecSrtNulls == InitSrtNulls /\ [][NextSrt]_vars

SpecSrtEmpty == InitSrtEmpty /\ [][NextSrt]_vars


(***************************************************************************)
(* Claims about save_to_srt, checked under SpecSrt.                        *)
(***************************************************************************)
\* a well-formed word: it has the four keys, its times are set and ordered
ValidSrtWord(w) ==
    /\ WordKeys \subseteq w.keys
    /\ w.nulls \cap {"start", "end"} = {}
    /\ w.start <= w.end

ValidWords == SelectSeq(aligned_words, ValidSrtWord)

RECURSIVE SumSeq(_)
SumSeq(q) == IF q = <<>> THEN 0 ELSE Head(q) + SumSeq(Tail(q))

\* the file holds three strings per entry; the third is the text
NumEntries == Len(f_srt) \div 3

EntryText(k) == f_srt[3 * k]

\* the words of an entry's text: its tokens but the "[SPEAKER]:" tag
EntryWordCount(k) == Len(Split(EntryText(k))) - 1

EntrySizes == [k \in 1..NumEntries |-> EntryWordCount(k)]

\* the position, among the well-formed words, of the first word of entry k
EntryStart(k) == 1 + SumSeq(SubSeq(EntrySizes, 1, k - 1))

EntryStarts == {EntryStart(k) : k \in 1..NumEntries}

\* the entries, read in order, hold as many words as there are well-formed words
EntriesTileWords == SumSeq(EntrySizes) = Len(ValidWords)

\* the gap between well-formed word j and the one before it
GapBefore(j) == ValidWords[j].start - ValidWords[j - 1].end

SameSpeakerBefore(j) == ValidWords[j].speaker = ValidWords[j - 1].speaker

\* word j follows word j-1 with another speaker or after a gap above the threshold
RunBreakBefore(j) ==
    ~SameSpeakerBefore(j) \/ GapBefore(j) > srt_options.speaker_gap_threshold

\* a..b is a maximal run of contiguous same-speaker words with no long gap
IsRun(a, b) ==
    /\ a <= b
    /\ a = 1 \/ RunBreakBefore(a)
    /\ b = Len(ValidWords) \/ RunBreakBefore(b + 1)
    /\ \A j \in (a + 1)..b : ~RunBreakBefore(j)

MaxWordsPerEntry == srt_options.max_words_per_entry[1]

SrtCompleted == pc = "srt_done" /\ saved = TRUE

\* C9: with max_words_per_entry = N every entry holds at most N words, and a
\* run of n contiguous same-speaker words with no gap above the threshold is
\* written as ceil(n / N) entries of which all but the last hold N words.
C9_EntriesCappedAtMaxWords ==
    SrtCompleted
    => /\ EntriesTileWords
       /\ \A k \in 1..NumEntries : EntrySizes[k] <= MaxWordsPerEntry
       /\ \A a, b \in 1..Len(ValidWords) :
             IsRun(a, b)
             => LET ks == {k \in 1..NumEntries : a <= EntryStart(k) /\ EntryStart(k) <= b}
                IN  /\ Cardinality(ks) = CeilDiv(b - a + 1, MaxWordsPerEntry)
                    /\ \E k \in ks : EntryStart(k) = a
                    /\ \A k \in ks :
                          \/ EntrySizes[k] = MaxWordsPerEntry
                          \/ /\ \A m \in ks : m <= k
                             /\ EntryStart(k) + EntrySizes[k] - 1 = b

\* C9 witness: three contiguous words of one speaker with a cap of 2 were
\* written as an entry of two words and an entry of one.
C9_Witness ==
    /\ SrtCompleted
    /\ MaxWordsPerEntry = 2
    /\ Len(ValidWords) = 3
    /\ IsRun(1, 3)
    /\ EntrySizes = <<2, 1>>

\* the first word of the entry that holds word j - 1
PrevEntryStart(j) ==
    CHOOSE e \in EntryStarts : e < j /\ \A x \in EntryStarts : x < j => x <= e

\* C10: a well-formed word whose start lies more than gap_threshold after the
\* end of the previous well-formed word starts a new entry, whatever the
\* speaker and the word count; so inside an entry every gap is at most the
\* threshold; and a gap equal to the threshold, with the speaker unchanged
\* and the cap not reached, leaves the word in the open entry.
C10_LongGapStartsEntry ==
    SrtCompleted
    => /\ EntriesTileWords
       /\ \A j \in 2..Len(ValidWords) :
             /\ GapBefore(j) > srt_options.speaker_gap_threshold => j \in EntryStarts
             /\ j \notin EntryStarts => GapBefore(j) <= srt_options.speaker_gap_threshold
             /\ (/\ GapBefore(j) = srt_options.speaker_gap_threshold
                 /\ SameSpeakerBefore(j)
                 /\ j - PrevEntryStart(j) < MaxWordsPerEntry)
                => j \notin EntryStarts

\* C10 witness: three words of one speaker under a cap of 3; the second comes
\* exactly the threshold after the first and shares its entry, the third
\* comes 1.5 s after the second and starts the next entry.
C10_Witness ==
    /\ SrtCompleted
    /\ MaxWordsPerEntry = 3
    /\ Len(ValidWords) = 3
    /\ SameSpeakerBefore(2)
    /\ SameSpeakerBefore(3)
    /\ GapBefore(2) = srt_options.speaker_gap_threshold
    /\ GapBefore(3) = srt_options.speaker_gap_threshold + 1
    /\ EntrySizes = <<2, 1>>

\* C11: the entries save_to_srt writes for a list are those it writes for
\* the list without its malformed records (a record that lacks one of the
\* four keys or has start > end): a malformed record changes neither the gap
\* measured by the next well-formed word, nor the word count, nor the open
\* phrase.
C11_MalformedWordsLeaveNoTrace ==
    SrtCompleted => f_srt = SrtFileOf(ValidWords, srt_options)

\* C11 witness: a record with start > end stands between two words of one
\* speaker, and the two words were written as one entry.
C11_Witness ==
    /\ SrtCompleted
    /\ Len(aligned_words) = 3
    /\ ValidSrtWord(aligned_words[1])
    /\ ~ValidSrtWord(aligned_words[2])
    /\ aligned_words[2].start > aligned_words[2].end
    /\ ValidSrtWord(aligned_words[3])
    /\ NumEntries = 1
    /\ EntrySizes = <<2>>

\* the words of entry k: the tokens of its text after the "[SPEAKER]:" tag
EntryWords(k) == Tail(Split(EntryText(k)))

\* the words of all entries, read in sequence order
WordsOfEntries == Concat([k \in 1..NumEntries |-> EntryWords(k)])

\* the texts of the well-formed words, in input order
ValidTexts == [j \in 1..Len(ValidWords) |-> ValidWords[j].text]

\* C13: every well-formed word is written in exactly one entry: the words of
\* the entries, read in sequence order, are the well-formed words in input
\* order, none lost and none written twice; the phrase that is open when the
\* list ends is written as the last entry.
C13_EveryWordInOneEntry ==
    SrtCompleted
    => /\ WordsOfEntries = ValidTexts
       /\ ValidWords # <<>> =>
             /\ NumEntries >= 1
             /\ EntryWords(NumEntries)[Len(EntryWords(NumEntries))]
                   = ValidWords[Len(ValidWords)].text

\* C13 witness: three words were written as two entries, and the last entry,
\* written after the loop, holds the last two.
C13_Witness ==
    /\ SrtCompleted
    /\ Len(ValidWords) = 3
    /\ EntrySizes = <<1, 2>>
    /\ EntryWords(2) = <<ValidWords[2].text, ValidWords[3].text>>

\* the number one entry is headed with: the first of its three strings
EntryNumber(k) == f_srt[3 * k - 2]

\* C14: the entries in the file are numbered 1, 2, ..., k in the order they
\* were written, none skipped and none repeated (at every moment of the call,
\* also in what a failed call leaves); k counts the phrases flushed, the last
\* flush included; a list without a well-formed word gives no entry.
C14_EntriesNumberedInOrder ==
    /\ \A k \in 1..((Len(f_srt) + 2) \div 3) : EntryNumber(k) = StrOfInt(k) \o <<"\n">>
    /\ SrtCompleted
       => /\ Len(f_srt) = 3 * NumEntries
          /\ NumEntries = (srt_sequence - 1) + (IF phrase_text # <<>> THEN 1 ELSE 0)
          /\ ValidWords = <<>> => f_srt = <<>>

\* C14 witness: three entries were written and the third is headed "3".
C14_Witness ==
    /\ SrtCompleted
    /\ NumEntries = 3
    /\ EntryNumber(3) = <<"3", "\n">>
    /\ srt_sequence = 3

\* the well-formed words the loop has passed
ValidWordsPassed == SelectSeq(SubSeq(aligned_words, 1, next_i), ValidSrtWord)

\* a phrase is open: the text buffer holds something
PhraseOpen == phrase_text # <<>>

\* a break condition fires for the word w against the open phrase
BreakFires(w) ==
    \/ w.speaker # current_speaker_srt
    \/ /\ ValidWordsPassed # <<>>
       /\ w.start - ValidWordsPassed[Len(ValidWordsPassed)].end
             > srt_options.speaker_gap_threshold
    \/ words_in_phrase >= MaxWordsPerEntry

\* the open phrase is the word w alone
PhraseIsWord(w) ==
    /\ phrase_text = w.text
    /\ current_speaker_srt = w.speaker
    /\ phrase_start_time = <<w.start>>
    /\ phrase_end_time = <<w.end>>
    /\ words_in_phrase = 1

\* the step opens a phrase that is the word w alone
PhraseOpensWith(w) ==
    /\ phrase_text' = w.text
    /\ current_speaker_srt' = w.speaker
    /\ phrase_start_time' = <<w.start>>
    /\ phrase_end_time' = <<w.end>>
    /\ words_in_phrase' = 1

\* the "[SPEAKER]:" tag an entry's text starts with
EntryTag(k) == Head(Split(EntryText(k)))

\* the words of every entry are words of the speaker the entry is tagged with
EntriesOfOneSpeaker ==
    /\ EntriesTileWords
    /\ \A k \in 1..NumEntries :
          \A j \in EntryStart(k)..(EntryStart(k) + EntrySizes[k] - 1) :
             EntryTag(k) = <<"[">> \o StrOf(ValidWords[j].speaker) \o <<"]", ":">>

\* C24: the break decision for a well-formed word is taken against the open
\* phrase before the word is appended: the open phrase is flushed and a new
\* phrase is opened with the word if and only if a phrase is open and (a) the
\* speaker differs from the phrase's, or (b) the gap to the previous
\* well-formed word is above gap_threshold, or (c) the phrase's word count
\* has reached max_words_per_entry; otherwise the word is appended, the
\* phrase's end becomes the word's end and the word count grows by one (the
\* first word opens the first phrase).  So every entry written holds words
\* of one speaker.
C24_BreakDecidedBeforeAppend ==
    /\ [][ (/\ pc = "srt_loop"
            /\ pc' = "srt_loop"
            /\ next_i' = next_i + 1
            /\ ValidSrtWord(aligned_words[next_i + 1]))
           => LET w == aligned_words[next_i + 1]
                  breaks == PhraseOpen /\ BreakFires(w)
              IN  /\ f_srt' # f_srt <=> breaks
                  /\ breaks => /\ f_srt' = f_srt \o OpenPhraseWrites
                               /\ PhraseOpensWith(w)
                  /\ ~PhraseOpen => PhraseOpensWith(w)
                  /\ (PhraseOpen /\ ~breaks)
                       => /\ phrase_text' = phrase_text \o <<" ">> \o w.text
                          /\ phrase_end_time' = <<w.end>>
                          /\ words_in_phrase' = words_in_phrase + 1
                          /\ UNCHANGED <<current_speaker_srt, phrase_start_time>>
         ]_vars
    /\ [](SrtCompleted => EntriesOfOneSpeaker)

\* C24 witness: two words of one speaker share the first entry, which the
\* third word, of the other speaker, has just flushed; that word is the open
\* phrase.
C24_Witness ==
    /\ pc = "srt_loop"
    /\ next_i = 3
    /\ Len(ValidWords) = 3
    /\ ValidWords[1].speaker = ValidWords[2].speaker
    /\ ValidWords[3].speaker # ValidWords[2].speaker
    /\ NumEntries = 1
    /\ EntryWords(1) = <<ValidWords[1].text, ValidWords[2].text>>
    /\ PhraseIsWord(ValidWords[3])

(***************************************************************************)
(* _wrap_text_to_lines on its own: a text of letters and spaces and a line *)
(* length are drawn, and WrapText applies the function.  A max_line_length *)
(* of 0 stands for the falsy values that switch wrapping off.              *)
(***************************************************************************)
WrapTexts == SeqsUpTo({"a", "b", " "}, MaxTextLen)

InitWrap ==
    /\ pc = "wrap"
    /\ wrap_call \in [text : WrapTexts, max_line_length : 0..MaxLineLength]
    /\ line_to_write = <<>>
    /\ seconds_given = <<>>
    /\ srt_time = <<>>
    /\ IdlePipeline
    /\ IdleApi
    /\ IdleAlign
    /\ IdleSave
    /\ speaker_turns_tuple = <<>>
    /\ word_info = None

\* line 108: line_to_write = _wrap_text_to_lines(line_to_write, max_line_length)
WrapText ==
    /\ pc = "wrap"
    /\ line_to_write' = _wrap_text_to_lines(wrap_call.text, wrap_call.max_line_length)
    /\ pc' = "wrapped"
    /\ UNCHANGED <<wrap_call, seconds_given, srt_time, pipelineVars, apiVars, total_words, alignVars,
                   saveVars, speaker_turns_tuple, word_info>>

NextWrap == WrapText

SpecWrap == InitWrap /\ [][NextWrap]_vars

(***************************************************************************)
(* Claims about _wrap_text_to_lines, checked under SpecWrap.               *)
(***************************************************************************)
\* the lines of a string: its pieces between line breaks
RECURSIVE LinesFrom(_, _, _)
LinesFrom(s, line, acc) ==
    IF s = <<>> THEN Append(acc, line)
    ELSE IF Head(s) = "\n" THEN LinesFrom(Tail(s), <<>>, Append(acc, line))
    ELSE LinesFrom(Tail(s), Append(line, Head(s)), acc)

WrappedLines == LinesFrom(line_to_write, <<>>, <<>>)

\* the words of the lines, read line by line
WordsOfLines == Concat([n \in 1..Len(WrappedLines) |-> Split(WrappedLines[n])])

\* C15: for max_line_length >= 1 the words of the wrapped text, read line by
\* line, are the words of the text in the same order; every line is at most
\* max_line_length long or a single word; and a line starts with a word only
\* where the line before it, a space and that word together are longer than
\* max_line_length.
C15_WrapIsGreedyAndKeepsWords ==
    (pc = "wrapped" /\ wrap_call.max_line_length >= 1)
    => /\ WordsOfLines = Split(wrap_call.text)
       /\ \A n \in 1..Len(WrappedLines) :
             \/ Len(WrappedLines[n]) <= wrap_call.max_line_length
             \/ Len(Split(WrappedLines[n])) = 1
       /\ \A n \in 2..Len(WrappedLines) :
             Len(WrappedLines[n - 1]) + 1 + Len(Split(WrappedLines[n])[1])
                > wrap_call.max_line_length

\* C15 witness: "ab a b" is too long for a line of 3: "a" does not fit
\* behind "ab" and starts a line, and "b" fills that line to the limit.
C15_Witness ==
    /\ pc = "wrapped"
    /\ wrap_call.max_line_length = 3
    /\ wrap_call.text = <<"a", "b", " ", "a", " ", "b">>
    /\ line_to_write = <<"a", "b", "\n", "a", " ", "b">>

(***************************************************************************)
(* format_srt_time on its own: a value is drawn and FormatTime applies the *)
(* function.  The values are every time of 0..MaxMillis milliseconds, the  *)
(* time 3661.123 of the test, the last millisecond below 100 hours, and    *)
(* the values that are no finite number.                                   *)
(***************************************************************************)
LongTimes == {3661123, 359999999}

InvalidTimes == {<<>>, <<"str", "x">>, <<"float", "nan">>, <<"float", "inf">>,
                 <<"float", "-inf">>}

TimeValues == {<<t>> : t \in (0..MaxMillis) \cup LongTimes} \cup InvalidTimes

InitFormat ==
    /\ pc = "format"
    /\ seconds_given \in TimeValues
    /\ srt_time = <<>>
    /\ wrap_call = None
    /\ line_to_write = <<>>
    /\ IdlePipeline
    /\ IdleApi
    /\ IdleAlign
    /\ IdleSave
    /\ speaker_turns_tuple = <<>>
    /\ word_info = None

\* lines 6-14
FormatTime ==
    /\ pc = "format"
    /\ srt_time' = format_srt_time(seconds_given)
    /\ pc' = "formatted"
    /\ UNCHANGED <<seconds_given, wrap_call, line_to_write, pipelineVars, apiVars, total_words, alignVars,
                   saveVars, speaker_turns_tuple, word_info>>

NextFormat == FormatTime

SpecFormat == InitFormat /\ [][NextFormat]_vars

(***************************************************************************)
(* Claims about format_srt_time, checked under SpecFormat.                 *)
(***************************************************************************)
DigitValue(c) == CHOOSE n \in 0..9 : Digit(n) = c

\* the number a string of digits spells
RECURSIVE NumberOf(_)
NumberOf(digits) ==
    IF digits = <<>> THEN 0
    ELSE 10 * NumberOf(SubSeq(digits, 1, Len(digits) - 1)) + DigitValue(digits[Len(digits)])

IsDigits(s) == \A n \in 1..Len(s) : s[n] \in {Digit(d) : d \in 0..9}

FixedTime == <<"0", "0", ":", "0", "0", ":", "0", "0", ",", "0", "0", "0">>

\* the four fields of a rendered time
FieldHH == NumberOf(SubSeq(srt_time, 1, 2))

FieldMM == NumberOf(SubSeq(srt_time, 4, 5))

FieldSS == NumberOf(SubSeq(srt_time, 7, 8))

FieldMillis == NumberOf(SubSeq(srt_time, 10, 12))

\* C16: a time of t whole milliseconds below 100 hours is rendered as
\* HH:MM:SS,mmm, zero-padded, with MM < 60, SS < 60, mmm < 1000 and
\* HH * 3600000 + MM * 60000 + SS * 1000 + mmm = t.
C16_FieldsAddUpToTheTime ==
    (pc = "formatted" /\ Len(seconds_given) = 1)
    => /\ Len(srt_time) = 12
       /\ srt_time[3] = ":" /\ srt_time[6] = ":" /\ srt_time[9] = ","
       /\ IsDigits(SubSeq(srt_time, 1, 2)) /\ IsDigits(SubSeq(srt_time, 4, 5))
       /\ IsDigits(SubSeq(srt_time, 7, 8)) /\ IsDigits(SubSeq(srt_time, 10, 12))
       /\ FieldMM < 60 /\ FieldSS < 60 /\ FieldMillis < 1000
       /\ FieldHH * 3600000 + FieldMM * 60000 + FieldSS * 1000 + FieldMillis
             = seconds_given[1]

\* C16, on the times that are a whole number of eighths of a second, which a
\* float holds exactly: there the fields do add up to the time.
C16_HoldsOnExactTimes ==
    (pc = "formatted" /\ Len(seconds_given) = 1 /\ seconds_given[1] % 125 = 0)
    => FieldHH * 3600000 + FieldMM * 60000 + FieldSS * 1000 + FieldMillis
          = seconds_given[1]

\* C17: for None, a value that is no number, nan and the two infinities
\* format_srt_time returns "00:00:00,000"; it does not raise.
C17_InvalidTimeGivesFixedString ==
    (pc = "formatted" /\ seconds_given \in InvalidTimes) => srt_time = FixedTime

\* C17 witness: the negative infinity was rendered as the fixed string.
C17_Witness ==
    /\ pc = "formatted"
    /\ seconds_given = <<"float", "-inf">>
    /\ srt_time = FixedTime

(***************************************************************************)
(* One call of either writer: save_to_txt or save_to_srt.                  *)
(***************************************************************************)
InitSave == InitTxt \/ InitSrt

NextSave == NextTxt \/ NextSrt

SpecSave == InitSave /\ [][NextSave]_vars

\* the file a call of save_to_txt leaves when every step succeeds
WholeTxtFile == [k \in 1..Len(RunsOf(WrittenWords)) |-> RunLine(RunsOf(WrittenWords)[k])]

\* C18: a failure of open or of a write is returned as a value: each writer
\* ends with True or False, and with True only when it went through the whole
\* list and the file holds everything the call has to write; a call in which
\* a step failed ends with False.
C18_WriteFailureIsReturnedAsFalse ==
    /\ pc = "txt_done"
       => /\ saved \in BOOLEAN
          /\ saved = TRUE => (next_i = Len(aligned_words) /\ f_txt = WholeTxtFile)
          /\ f_txt # WholeTxtFile => saved = FALSE
    /\ pc = "srt_done"
       => /\ saved \in BOOLEAN
          /\ saved = TRUE => (/\ next_i = Len(aligned_words)
                              /\ f_srt = SrtFileOf(aligned_words, srt_options))
          /\ f_srt # SrtFileOf(aligned_words, srt_options) => saved = FALSE

\* C18 witness: the third write of the second entry failed; save_to_srt
\* returned False and the file holds the first entry and two strings.
C18_Witness ==
    /\ pc = "srt_done"
    /\ saved = FALSE
    /\ Len(f_srt) = 5
    /\ f_srt # SrtFileOf(aligned_words, srt_options)

(***************************************************************************)
(* transcribe_meeting_script.py: main from the extraction of the audio on  *)
(* (lines 130-230).  What each stage will yield is drawn in InitMain; the  *)
(* stage functions catch their own exceptions and report a failure by the *)
(* value they return:                                                      *)
(*   extract_audio                  False                                  *)
(*   ModelManager.__enter__         None                                   *)
(*   Pipeline.from_pretrained       raises; failed_loads attempts do       *)
(*   run_diarization                None                                   *)
(*   run_transcription              None, or segments that raise when read *)
(*   align_words_with_speakers      [] (the except clauses of alignment.py)*)
(*   save_transcript_with_speakers  False (the except clause of            *)
(*                                  save_to_txt)                           *)
(* calls lists the functions called so far, in order.                      *)
(***************************************************************************)
MAX_RETRIES == 3

PyBool(b) == IF b THEN "True" ELSE "False"

MainOutcomes ==
    [extract_audio : BOOLEAN,
     whisper_model : {"loaded", None},
     token : {"set", "missing"},
     failed_loads : 0..MAX_RETRIES,
     diarization : {"result", None},
     transcription : {"segments", "unreadable", None},
     alignment : {"aligned", "failed"},
     saved : BOOLEAN]

InitMain ==
    /\ pc = "main_extract"
    /\ outcomes \in MainOutcomes
    /\ calls = <<>>
    /\ processing_successful = FALSE
    /\ main_returned = None
    /\ job_status = None
    /\ IdleHelpers
    /\ IdleApi
    /\ IdleAlign
    /\ IdleSave
    /\ speaker_turns_tuple = <<>>
    /\ word_info = None

\* what a step of main leaves alone besides pc, calls and its own variables
MainFrame ==
    UNCHANGED <<outcomes, job_status, helperVars, apiVars, total_words, alignVars, saveVars,
                speaker_turns_tuple, word_info>>

\* lines 131-133
MainExtractAudio ==
    /\ pc = "main_extract"
    /\ calls' = Append(calls, "extract_audio")
    /\ IF outcomes.extract_audio
       THEN pc' = "main_model" /\ UNCHANGED main_returned
       ELSE pc' = "main_done" /\ main_returned' = "sys.exit(1)"
    /\ UNCHANGED processing_successful
    /\ MainFrame

\* lines 146-152: a model of None raises ValueError, caught at line 214
MainLoadModel ==
    /\ pc = "main_model"
    /\ calls' = Append(calls, "ModelManager")
    /\ pc' = IF outcomes.whisper_model = None THEN "main_finally" ELSE "main_token"
    /\ UNCHANGED <<processing_successful, main_returned>>
    /\ MainFrame

\* lines 155-159: without a token sys.exit(1) raises SystemExit, which line 214
\* does not catch; the finally block runs
MainToken ==
    /\ pc = "main_token"
    /\ calls' = Append(calls, "check_and_get_huggingface_token")
    /\ pc' = IF outcomes.token = "missing" THEN "main_finally" ELSE "main_pipeline"
    /\ UNCHANGED <<processing_successful, main_returned>>
    /\ MainFrame

\* the attempts to load the diarization pipeline made so far
LoadAttempts == Len(SelectSeq(calls, LAMBDA c : c = "Pipeline.from_pretrained"))

\* lines 167-184: one attempt; after MAX_RETRIES failed attempts ValueError
MainLoadPipeline ==
    /\ pc = "main_pipeline"
    /\ calls' = Append(calls, "Pipeline.from_pretrained")
    /\ pc' = IF LoadAttempts >= outcomes.failed_loads THEN "main_diarize"
             ELSE IF LoadAttempts + 1 < MAX_RETRIES THEN "main_pipeline"
             ELSE "main_finally"
    /\ UNCHANGED <<processing_successful, main_returned>>
    /\ MainFrame

\* lines 187-190
MainDiarize ==
    /\ pc = "main_diarize"
    /\ IF outcomes.diarization = None
       THEN /\ calls' = Append(calls, "run_diarization")
            /\ pc' = "main_finally"
       ELSE /\ calls' = calls \o <<"run_diarization", "extract_speaker_turns">>
            /\ pc' = "main_transcribe"
    /\ UNCHANGED <<processing_successful, main_returned>>
    /\ MainFrame

\* lines 193-199
MainTranscribe ==
    /\ pc = "main_transcribe"
    /\ calls' = Append(calls, "run_transcription")
    /\ pc' = IF outcomes.transcription = "segments" THEN "main_align" ELSE "main_finally"
    /\ UNCHANGED <<processing_successful, main_returned>>
    /\ MainFrame

\* line 204: the aligner returns a list whether it failed or not
MainAlign ==
    /\ pc = "main_align"
    /\ calls' = Append(calls, "align_words_with_speakers")
    /\ pc' = "main_save"
    /\ UNCHANGED <<processing_successful, main_returned>>
    /\ MainFrame

\* lines 208-212: the value save_transcript_with_speakers returns is dropped
MainSave ==
    /\ pc = "main_save"
    /\ calls' = Append(calls, "save_transcript_with_speakers")
    /\ processing_successful' = TRUE
    /\ pc' = "main_finally"
    /\ UNCHANGED main_returned
    /\ MainFrame

\* lines 217-230: the return inside finally also ends a pending SystemExit
MainFinally ==
    /\ pc = "main_finally"
    /\ calls' = IF processing_successful
                THEN calls \o <<"move_video", "delete_temp_audio">>
                ELSE calls
    /\ main_returned' = PyBool(processing_successful)
    /\ pc' = "main_done"
    /\ UNCHANGED processing_successful
    /\ MainFrame

NextMain ==
    \/ MainExtractAudio
    \/ MainLoadModel
    \/ MainToken
    \/ MainLoadPipeline
    \/ MainDiarize
    \/ MainTranscribe
    \/ MainAlign
    \/ MainSave
    \/ MainFinally

SpecMain == InitMain /\ [][NextMain]_vars

(***************************************************************************)
(* Claims about main, checked under SpecMain.                              *)
(***************************************************************************)
Called(f) == \E n \in 1..Len(calls) : calls[n] = f

\* a stage of the processing block was run and failed
MainStageFailed ==
    \/ Called("ModelManager") /\ outcomes.whisper_model = None
    \/ LoadAttempts = MAX_RETRIES /\ outcomes.failed_loads = MAX_RETRIES
    \/ Called("run_diarization") /\ outcomes.diarization = None
    \/ Called("run_transcription") /\ outcomes.transcription # "segments"
    \/ Called("align_words_with_speakers") /\ outcomes.alignment = "failed"
    \/ Called("save_transcript_with_speakers") /\ ~outcomes.saved

\* C19: when a stage of the processing block has failed (model load, load of
\* the diarization pipeline, diarization, transcription, alignment, output),
\* main returns False and calls neither move_video nor delete_temp_audio.
C19_NoCleanupAfterFailedStage ==
    (pc = "main_done" /\ MainStageFailed)
    => /\ main_returned = "False"
       /\ ~Called("move_video")
       /\ ~Called("delete_temp_audio")

\* C19, for the stages that report their failure by None or by raising: after
\* one of them failed main returns False without move_video and
\* delete_temp_audio; and the two are only ever called, in this order, after
\* save_transcript_with_speakers.
C19_HoldsForRaisingStages ==
    /\ (pc = "main_done" /\ main_returned # "sys.exit(1)"
        /\ ~Called("save_transcript_with_speakers"))
       => /\ main_returned = "False"
          /\ ~Called("move_video")
          /\ ~Called("delete_temp_audio")
    /\ Called("move_video") \/ Called("delete_temp_audio")
       => /\ Called("save_transcript_with_speakers")
          /\ calls[Len(calls) - 1] = "move_video"
          /\ calls[Len(calls)] = "delete_temp_audio"

(***************************************************************************)
(* core.py: process_video for a job of the jobs table.  What each stage    *)
(* will yield is drawn in InitJob, as for main; load_diarization_pipeline  *)
(* reports a failure by None.  A raise inside the try block is caught at   *)
(* line 103, which sets the status "failed"; the step of the stage that    *)
(* raises includes it.                                                     *)
(***************************************************************************)
JobOutcomes ==
    [job_dir : {"made", "error"},
     extract_audio : BOOLEAN,
     whisper_model : {"loaded", None},
     pipeline : {"loaded", None},
     diarization : {"result", None},
     transcription : {"segments", "unreadable", None},
     alignment : {"aligned", "failed"},
     saved : BOOLEAN]

\* api.py:75-83 enters the job as "queued" before process_video is scheduled
InitJob ==
    /\ pc = "job_start"
    /\ outcomes \in JobOutcomes
    /\ calls = <<>>
    /\ job_status = "queued"
    /\ processing_successful = FALSE
    /\ main_returned = None
    /\ IdleHelpers
    /\ IdleApi
    /\ IdleAlign
    /\ IdleSave
    /\ speaker_turns_tuple = <<>>
    /\ word_info = None

JobFrame ==
    UNCHANGED <<outcomes, processing_successful, main_returned, helperVars, apiVars, total_words,
                alignVars, saveVars, speaker_turns_tuple, word_info>>

\* a stage of the try block: it calls f, and goes on to next if f succeeded;
\* if not, RuntimeError is raised and lines 103-106 set the status "failed"
JobStage(f, succeeded, next) ==
    /\ calls' = Append(calls, f)
    /\ IF succeeded
       THEN pc' = next /\ UNCHANGED job_status
       ELSE pc' = "job_finally" /\ job_status' = "failed"
    /\ JobFrame

\* lines 44-51: mkdir is outside the try block; if it raises, the exception
\* leaves process_video
JobStart ==
    /\ pc = "job_start"
    /\ job_status' = "processing"
    /\ pc' = IF outcomes.job_dir = "made" THEN "job_extract" ELSE "job_raised"
    /\ UNCHANGED calls
    /\ JobFrame

\* lines 55-56
JobExtractAudio ==
    /\ pc = "job_extract"
    /\ JobStage("extract_audio", outcomes.extract_audio, "job_model")

\* lines 59-68
JobLoadModel ==
    /\ pc = "job_model"
    /\ JobStage("ModelManager", outcomes.whisper_model # None, "job_pipeline")

\* lines 71-76
JobLoadPipeline ==
    /\ pc = "job_pipeline"
    /\ JobStage("load_diarization_pipeline", outcomes.pipeline # None, "job_diarize")

\* lines 79-83
JobDiarize ==
    /\ pc = "job_diarize"
    /\ JobStage("run_diarization", outcomes.diarization # None, "job_transcribe")

\* lines 86-90
JobTranscribe ==
    /\ pc = "job_transcribe"
    /\ JobStage("run_transcription", outcomes.transcription = "segments", "job_align")

\* line 93: the aligner returns a list whether it failed or not
JobAlign ==
    /\ pc = "job_align"
    /\ JobStage("align_words_with_speakers", TRUE, "job_save")

\* lines 96-101: the value save_transcript_with_speakers returns is dropped
JobSave ==
    /\ pc = "job_save"
    /\ calls' = Append(calls, "save_transcript_with_speakers")
    /\ job_status' = "completed"
    /\ pc' = "job_finally"
    /\ JobFrame

\* lines 108-110
JobFinally ==
    /\ pc = "job_finally"
    /\ calls' = Append(calls, "cleanup_gpu_memory")
    /\ pc' = "job_done"
    /\ UNCHANGED job_status
    /\ JobFrame

NextJob ==
    \/ JobStart
    \/ JobExtractAudio
    \/ JobLoadModel
    \/ JobLoadPipeline
    \/ JobDiarize
    \/ JobTranscribe
    \/ JobAlign
    \/ JobSave
    \/ JobFinally

SpecJob == InitJob /\ [][NextJob]_vars

(***************************************************************************)
(* Claims about process_video, checked under SpecJob.                      *)
(***************************************************************************)
\* the stages in the order of the claim: audio extraction, model load (the
\* Whisper model and the diarization pipeline), diarization, transcription,
\* alignment, save
JobStageOrder ==
    <<"extract_audio", "ModelManager", "load_diarization_pipeline", "run_diarization",
      "run_transcription", "align_words_with_speakers", "save_transcript_with_speakers">>

\* the stages run so far
StagesRun == SelectSeq(calls, LAMBDA c : c # "cleanup_gpu_memory")

\* the stages ran in the order of JobStageOrder, none left out
StagesRunInOrder ==
    /\ Len(StagesRun) <= Len(JobStageOrder)
    /\ StagesRun = SubSeq(JobStageOrder, 1, Len(StagesRun))

\* stage number n was run and failed
JobStageFailedAt(n) ==
    /\ n <= Len(StagesRun)
    /\ \/ StagesRun[n] = "extract_audio" /\ ~outcomes.extract_audio
       \/ StagesRun[n] = "ModelManager" /\ outcomes.whisper_model = None
       \/ StagesRun[n] = "load_diarization_pipeline" /\ outcomes.pipeline = None
       \/ StagesRun[n] = "run_diarization" /\ outcomes.diarization = None
       \/ StagesRun[n] = "run_transcription" /\ outcomes.transcription # "segments"
       \/ StagesRun[n] = "align_words_with_speakers" /\ outcomes.alignment = "failed"
       \/ StagesRun[n] = "save_transcript_with_speakers" /\ ~outcomes.saved

\* C20: process_video first sets the status "processing"; when it has
\* returned the status is "completed" or "failed"; the stages ran in order;
\* and a stage that failed was the last one run and left the status
\* "failed".
C20_FailedStageSetsFailed ==
    /\ pc # "job_start" => job_status # "queued"
    /\ StagesRunInOrder
    /\ pc = "job_done"
       => /\ job_status \in {"completed", "failed"}
          /\ \A n \in 1..Len(JobStageOrder) :
                JobStageFailedAt(n) => (job_status = "failed" /\ Len(StagesRun) = n)

\* C20, for the stages that report their failure by False or None or by
\* raising: the status leaves "queued" at once, the stages run in order, a
\* call that returns leaves "completed" or "failed", "failed" exactly when
\* the save stage was not reached.
C20_HoldsForRaisingStages ==
    /\ pc # "job_start" => job_status # "queued"
    /\ StagesRunInOrder
    /\ pc = "job_done"
       => /\ job_status \in {"completed", "failed"}
          /\ job_status = "failed" <=> ~Called("save_transcript_with_speakers")

(***************************************************************************)
(* api.py: the jobs table and its endpoints.  The endpoints and            *)
(* process_video are coroutines of one event loop, and none of them        *)
(* awaits: each runs from its first line to its last without another one   *)
(* in between, so each is one step.  The background task of a job is       *)
(* scheduled by POST /transcribe (line 83) and started by the framework    *)
(* later; requests may be answered in between, while the job is "queued".  *)
(* Job ids are uuid4 values, modelled as 1, 2, ... in order of creation.   *)
(***************************************************************************)
JobIds == 1..MaxJobs

\* lines 75-80
JobRecord(status, output_file) == [status |-> status, output_file |-> output_file]

\* jobs[job_id] = record
WithJob(table, job_id, record) ==
    [k \in (DOMAIN table) \cup {job_id} |-> IF k = job_id THEN record ELSE table[k]]

\* del jobs[job_id]
WithoutJob(table, job_id) == [k \in (DOMAIN table) \ {job_id} |-> table[k]]

Response(request, job_id, status_code) ==
    [request |-> request, job_id |-> job_id, status_code |-> status_code]

InitApi ==
    /\ pc = "serving"
    /\ IdleApi
    /\ IdlePipeline
    /\ IdleHelpers
    /\ IdleAlign
    /\ IdleSave
    /\ speaker_turns_tuple = <<>>
    /\ word_info = None

ApiFrame ==
    UNCHANGED <<pc, pipelineVars, helperVars, alignVars, saveVars,
                speaker_turns_tuple, word_info, total_words>>

\* lines 50-85; if the upload cannot be stored (lines 67-72) the exception
\* leaves the handler before the job is entered
transcribe_video ==
    /\ Len(tasks) < MaxJobs
    /\ \E stored \in BOOLEAN :
         IF stored
         THEN LET job_id == Len(tasks) + 1 IN
              /\ jobs' = WithJob(jobs, job_id, JobRecord("queued", None))
              /\ tasks' = Append(tasks, "scheduled")
              /\ response' = Response("transcribe", job_id, 200)
         ELSE /\ response' = Response("transcribe", 0, 500)
              /\ UNCHANGED <<jobs, tasks>>
    /\ UNCHANGED files
    /\ ApiFrame

\* lines 88-105
get_job_status(job_id) ==
    /\ response' = Response("status", job_id,
                            IF job_id \notin DOMAIN jobs THEN 404 ELSE 200)
    /\ UNCHANGED <<jobs, tasks, files>>
    /\ ApiFrame

\* line 126 with only a failed job refused
DownloadRefusedWhenFailed(job) == job.status = "failed"

\* line 126: not job["output_file"] holds of None and of the empty string
DownloadRefused(job) ==
    job.status # "completed" \/ job.output_file \in {None, ""}

\* lines 108-143
download_transcript(job_id) ==
    /\ response' = Response("download", job_id,
          IF job_id \notin DOMAIN jobs THEN 404
          ELSE IF DownloadRefused(jobs[job_id]) THEN 400
          ELSE IF job_id \notin files THEN 404
          ELSE 200)
    /\ UNCHANGED <<jobs, tasks, files>>
    /\ ApiFrame

\* core.py lines 20-33: the job directory is removed, the transcript with it
cleanup_job_files(job_id) == files \ {job_id}

\* lines 146-169
delete_job(job_id) ==
    /\ IF job_id \notin DOMAIN jobs
       THEN /\ response' = Response("delete", job_id, 404)
            /\ UNCHANGED <<jobs, files>>
       ELSE /\ files' = cleanup_job_files(job_id)
            /\ jobs' = WithoutJob(jobs, job_id)
            /\ response' = Response("delete", job_id, 200)
    /\ UNCHANGED tasks
    /\ ApiFrame

\* core.py lines 55-90: no stage of the try block raises
StagesSucceed(o) ==
    /\ o.extract_audio
    /\ o.whisper_model # None
    /\ o.pipeline # None
    /\ o.diarization # None
    /\ o.transcription = "segments"

\* core.py lines 35-110, the background task of job_id.  Line 44 reads
\* jobs[job_id] outside the try block: if the job is not in the table, the
\* KeyError leaves process_video.  An error of mkdir (line 48) leaves it too,
\* with the status "processing".
process_video(job_id) ==
    /\ job_id \in 1..Len(tasks)
    /\ tasks[job_id] = "scheduled"
    /\ IF job_id \notin DOMAIN jobs
       THEN /\ tasks' = [tasks EXCEPT ![job_id] = "KeyError"]
            /\ UNCHANGED <<jobs, files>>
       ELSE \E o \in JobOutcomes :
              IF o.job_dir = "error"
              THEN /\ jobs' = WithJob(jobs, job_id, JobRecord("processing", None))
                   /\ tasks' = [tasks EXCEPT ![job_id] = "OSError"]
                   /\ UNCHANGED files
              ELSE IF StagesSucceed(o)
              THEN /\ jobs' = WithJob(jobs, job_id, JobRecord("completed", "transcript.txt"))
                   /\ files' = IF o.saved THEN files \cup {job_id} ELSE files
                   /\ tasks' = [tasks EXCEPT ![job_id] = "returned"]
              ELSE /\ jobs' = WithJob(jobs, job_id, JobRecord("failed", None))
                   /\ tasks' = [tasks EXCEPT ![job_id] = "returned"]
                   /\ UNCHANGED files
    /\ UNCHANGED response
    /\ ApiFrame

NextApi ==
    \/ transcribe_video
    \/ \E job_id \in JobIds : get_job_status(job_id)
    \/ \E job_id \in JobIds : download_transcript(job_id)
    \/ \E job_id \in JobIds : delete_job(job_id)
    \/ \E job_id \in JobIds : process_video(job_id)

SpecApi == InitApi /\ [][NextApi]_vars

(***************************************************************************)
(* Claims about the jobs table, checked under SpecApi.                     *)
(***************************************************************************)
\* the job was created and has been removed from the table by DELETE
Deleted(table, job_id) == job_id \in 1..Len(tasks) /\ job_id \notin DOMAIN table

\* C21: a download is answered 200 only for a job that is in the table, has
\* the status "completed" and has an output_file; it is answered 404 for a
\* job id that is not in the table and 400 for a job that is queued,
\* processing or failed.  A DELETE answered 200 removes the job from the
\* table, a removed job never returns to it, and every status, download or
\* delete request for a removed job is answered 404.
C21_DownloadOnlyWhenCompleted ==
    [][ /\ \A id \in JobIds : Deleted(jobs, id) => Deleted(jobs', id)
        /\ response' # response =>
             LET r == response'
                 known == r.job_id \in DOMAIN jobs
             IN  /\ (r.request = "download" /\ r.status_code = 200)
                      => /\ known
                         /\ jobs[r.job_id].status = "completed"
                         /\ jobs[r.job_id].output_file # None
                 /\ (r.request = "download" /\ ~known) => r.status_code = 404
                 /\ (r.request = "download" /\ known
                       /\ jobs[r.job_id].status \in {"queued", "processing", "failed"})
                      => r.status_code = 400
                 /\ (r.request = "delete" /\ r.status_code = 200)
                      => Deleted(jobs', r.job_id)
                 /\ (r.request \in {"status", "download", "delete"}
                       /\ Deleted(jobs, r.job_id))
                      => r.status_code = 404
      ]_vars

\* a download is refused with 400 for a failed job after another job has
\* been deleted
C21_Witness ==
    /\ response = Response("download", 2, 400)
    /\ Deleted(jobs, 1)
    /\ 2 \in DOMAIN jobs
    /\ jobs[2].status = "failed"

\* C30: whenever DELETE /jobs/{id} arrives with respect to the background
\* task of the job, process_video ends without an unhandled error and never
\* reads or writes the record of a job that is not in the table.
C30_DeleteNeverBreaksProcessing ==
    \A id \in 1..Len(tasks) : tasks[id] # "KeyError"

\* C30, supporting: the KeyError leaves process_video only when the job was
\* deleted before the task started, and a task that has started is never
\* interleaved with a request.
C30_KeyErrorOnlyAfterDelete ==
    \A id \in 1..Len(tasks) : tasks[id] = "KeyError" => Deleted(jobs, id)

(***************************************************************************)
(* The two pipelines side by side: a run of main or a run of process_video.*)
(***************************************************************************)
InitPipelines == InitMain \/ InitJob

NextPipelines == NextMain \/ NextJob

SpecPipelines == InitPipelines /\ [][NextPipelines]_vars

\* the aligner's worker pool failed, or the transcript file was not written
AlignmentOrSaveFailed ==
    \/ Called("align_words_with_speakers") /\ outcomes.alignment = "failed"
    \/ Called("save_transcript_with_speakers") /\ ~outcomes.saved

\* C27: the pipelines escalate a failure of the alignment and a failure to
\* write the transcript: process_video sets the job "completed", and main
\* sets processing_successful and moves the video, only if the alignment did
\* not fail and the transcript was written; after a failure of the worker
\* pool or of save_transcript_with_speakers the job ends "failed" and main
\* returns False.
C27_AlignAndSaveFailuresEscalated ==
    /\ (pc = "job_done" /\ AlignmentOrSaveFailed) => job_status = "failed"
    /\ (pc = "job_done" /\ job_status = "completed")
       => (outcomes.alignment = "aligned" /\ outcomes.saved)
    /\ (pc = "main_done" /\ AlignmentOrSaveFailed)
       => (main_returned = "False" /\ ~processing_successful /\ ~Called("move_video"))
    /\ (pc = "main_done" /\ Called("move_video"))
       => (outcomes.alignment = "aligned" /\ outcomes.saved)

\* C27, supporting: what the pipelines do instead: once the transcription has
\* yielded its segments, the job ends "completed" and main returns True and
\* moves the video, whatever the alignment and the save yielded.
C27_FailuresAreDropped ==
    /\ (pc = "job_done" /\ Called("align_words_with_speakers"))
       => job_status = "completed"
    /\ (pc = "main_done" /\ Called("align_words_with_speakers"))
       => (main_returned = "True" /\ Called("move_video"))

(***************************************************************************)
(* Claims about the time ranges of the entries, checked under SpecSrt.     *)
(***************************************************************************)
\* the time range line of entry k: the second of its three strings
EntryRange(k) == f_srt[3 * k - 1]

\* the milliseconds a rendered time HH:MM:SS,mmm stands for
MillisOfStamp(stamp) ==
    NumberOf(SubSeq(stamp, 1, 2)) * 3600000 + NumberOf(SubSeq(stamp, 4, 5)) * 60000
       + NumberOf(SubSeq(stamp, 7, 8)) * 1000 + NumberOf(SubSeq(stamp, 10, 12))

\* the two ends of the range of entry k, as written in the file
RangeStart(k) == MillisOfStamp(SubSeq(EntryRange(k), 1, 12))

RangeEnd(k) == MillisOfStamp(SubSeq(EntryRange(k), 18, 29))

\* the first and the last well-formed word of entry k
FirstWordOf(k) == ValidWords[EntryStart(k)]

LastWordOf(k) == ValidWords[EntryStart(k) + EntrySizes[k] - 1]

\* each well-formed word ends before the next one starts
WordsInTimeOrder ==
    \A j \in 1..(Len(ValidWords) - 1) : ValidWords[j].end <= ValidWords[j + 1].start

\* C26: the time range of an entry runs from the start of the first word of
\* its phrase to the end of the last word of its phrase; for words in time
\* order (start <= end <= the next word's start) every entry has
\* start <= end, and the ranges do not overlap and do not decrease in
\* sequence order.
C26_RangeFromFirstStartToLastEnd ==
    SrtCompleted
    => /\ EntriesTileWords
       /\ \A k \in 1..NumEntries :
             /\ EntryRange(k)
                   = format_srt_time(SecondsOfTicks(<<FirstWordOf(k).start>>))
                        \o <<" ", "-", "-", ">", " ">>
                        \o format_srt_time(SecondsOfTicks(<<LastWordOf(k).end>>))
                        \o <<"\n">>
             /\ RangeStart(k) = 500 * FirstWordOf(k).start
             /\ RangeEnd(k) = 500 * LastWordOf(k).end
       /\ WordsInTimeOrder
          => /\ \A k \in 1..NumEntries : RangeStart(k) <= RangeEnd(k)
             /\ \A k \in 1..(NumEntries - 1) : RangeEnd(k) <= RangeStart(k + 1)

\* C26 witness: two words with a gap between them share the first entry,
\* whose range runs from the start of the first, 0 s, to the end of the
\* second, 2 s; the second entry starts where the first ends.
C26_Witness ==
    /\ SrtCompleted
    /\ EntrySizes = <<2, 1>>
    /\ FirstWordOf(1).end < LastWordOf(1).start
    /\ RangeStart(1) = 0
    /\ RangeEnd(1) = 2000
    /\ RangeStart(2) = 2000
    /\ RangeEnd(2) = 2500

(***************************************************************************)
(* Claims about words with empty text, checked under SpecSrtEmpty.         *)
(***************************************************************************)
\* C25: at every point of a call exactly one phrase is open: once a
\* well-formed word has been consumed the accumulator holds a phrase with a
\* speaker, a start, an end and a non-empty text buffer, and at every point
\* its word count is the number of words in its text buffer, whatever the
\* texts of the words consumed (empty ones included).
C25_OnePhraseOpen ==
    pc = "srt_loop"
    => /\ words_in_phrase = Len(Split(phrase_text))
       /\ ValidWordsPassed # <<>>
          => /\ PhraseOpen
             /\ current_speaker_srt # None
             /\ phrase_start_time # <<>>
             /\ phrase_end_time # <<>>

(***************************************************************************)
(* Claims about records that hold None, checked under SpecSrtNulls.        *)
(***************************************************************************)
\* a write to the file is due in the next step of the loop: the flush of
\* line 102 before the next word, or the flush after the last one
SrtWriteDue ==
    \/ /\ next_i = Len(aligned_words)
       /\ phrase_text # <<>>
    \/ /\ next_i < Len(aligned_words)
       /\ ~SrtSkips(aligned_words[next_i + 1])
       /\ SrtFlushes(next_i, aligned_words[next_i + 1])

\* C12: a malformed record (a key missing or holding None, or start > end)
\* is left out silently and never makes save_to_srt return False: the loop
\* returns False only in a step in which it writes to the file, that is only
\* because a write failed.
C12_MalformedNeverFails ==
    [][(pc = "srt_loop" /\ pc' = "srt_done" /\ saved' = FALSE) => SrtWriteDue]_vars

=============================================================================
